---- MODULE Spec2Model ----
(***************************************************************************)
(* Verification model of VVToolkit: the background execution helpers       *)
(* (tools/ParallelExecution.py) as driven by the build and test widgets,   *)
(* and the validation of test results (DataFields.py).                     *)
(***************************************************************************)
EXTENDS Integers, Sequences, FiniteSets, TLC

(***************************************************************************)
(* Bounds of the model.                                                    *)
(***************************************************************************)
\* Largest number of items a widget action puts into the loop queue.
MaxItems == 3

\* Largest number of repetitions of an item.
MaxReps == 3

\* Largest number of results a list of an item (result, testOutput) grows to.
MaxResults == 3

\* Largest number of times the test of an item is repeated (rerun-test).
MaxRepeats == 2

\* Largest number of Item objects the editable collection, its copies and the
\* undo/redo log come to hold.
MaxObjs == 2

\* Largest number of entries the undo and redo stacks hold together.
MaxStack == 2

\* _getNextItem returns None when the queue is empty; items are 1..MaxItems.
None == 0

ItemIds == 1..MaxItems

VARIABLES
    action,             \* the widget action that constructed the execution
    onFinishFunction,   \* TRUE iff the onFinishFunction argument is not None
    onException,        \* TRUE iff the onException argument is not None
    loopItems,          \* ParallelLoopExecution.loopItems: the items still queued
    exceptionOccurred,  \* the exceptionOccurred field of the execution
    started,            \* TRUE once the caller has called pex.run()
    thread,             \* per item: state of the QThread/Worker created for it
    mainQueue,          \* queued slot invocations pending in the GUI thread's event loop
    log,                \* history: the observable events, in order
    queue0              \* history: the items handed to the constructor

pexVars == <<action, onFinishFunction, onException, loopItems, exceptionOccurred,
             started, thread, mainQueue, log, queue0>>

VARIABLES
    vCmd,               \* validate: the ValidationCommand (self)
    vOriginal,          \* validate: originalResult
    vTest,              \* validate: testResult
    vPrev,              \* validate: prevTestResult
    vOut,               \* validate: what the call did (raised, result, ret)
    vPc                 \* "call" before the call of validate, "done" after it

valVars == <<vCmd, vOriginal, vTest, vPrev, vOut, vPc>>

VARIABLES
    item,               \* an Item: its fields
    last                \* history: the last method called, whether it ran the
                        \* command (clearTest: had test results to clear) and
                        \* the exception it raised

itemVars == <<item, last>>

VARIABLES
    items               \* the project's items (parent.items), by place: for each
                        \* its enabled flag, its repetitions and its category

colVars == <<items>>

VARIABLES
    heap,               \* the Item objects, by address: their fields
    parentItems,        \* parent.items: the addresses of the editable collection
    currentTest,        \* testWidget.currentTest: the addresses of the session
    undoStack,          \* UndoRedo.undoStack: entries (action, address)
    redoStack,          \* UndoRedo.redoStack
    cmdCalledFromHere,  \* UndoRedo.cmdCalledFromHere
    currentWidget,      \* gui.currentWidget: "setup" or "build"
    file,               \* the contents of the project file
    projectDataFields,  \* gui.projectDataFields: the project's metadata
    done                \* history: the last handler, what it raised and the
                        \* state it started from

docVars == <<heap, parentItems, currentTest, undoStack, redoStack, cmdCalledFromHere,
             currentWidget, file, projectDataFields, done>>

saveVars == <<file, projectDataFields>>

VARIABLES
    toolbars,           \* GUI.setEnableToolbars: the menu bar and the tool bars are
                        \* enabled
    topBar,             \* the topBar of the build widget and of the test widget is
                        \* enabled
    currentlyRunningTest,   \* testWidget.currentlyRunningTest
    jobs,               \* the background executions in flight: the action that
                        \* started each and the items it has left to run
    uiDone              \* history: the last action a widget was asked for, whether
                        \* an execution was in flight then and whether it acted

uiVars == <<toolbars, topBar, currentlyRunningTest, jobs, uiDone>>

vars == <<pexVars, valVars, itemVars, colVars, uiVars, docVars>>

(***************************************************************************)
(* The callers.  BuildWidget passes its onException handler, TestWidget    *)
(* leaves the parameter at its default (None).  Every caller passes an     *)
(* onFinishFunction.                                                       *)
(***************************************************************************)
LoopActions == {"run-all-items", "run-all-tests"}
OneActions == {"run-item", "rerun-test"}

\* Does the caller pass an onException argument?
PassesOnException(a) == a \in {"run-item", "run-all-items"}

\* Does the caller pass an onFinishFunction argument?
PassesOnFinish(a) == a \in LoopActions \cup OneActions

IsLoop == action \in LoopActions

\* All sequences without repetition over S, of length at most n.
RECURSIVE DistinctSeqs(_, _)
DistinctSeqs(S, n) ==
    IF n = 0 \/ S = {} THEN {<<>>}
    ELSE {<<>>} \cup UNION {{<<x>> \o s : s \in DistinctSeqs(S \ {x}, n - 1)} : x \in S}

Event(e, i) == [ev |-> e, item |-> i]
Slot(s, i) == [sig |-> s, item |-> i]

(***************************************************************************)
(* Signal connections (ParallelExecution.__init__, _runItem).  The QThread *)
(* object lives in the GUI thread, so a slot of it, and a slot connected   *)
(* to one of its signals, is queued in the GUI thread's event loop.        *)
(***************************************************************************)
\* Slots connected to worker.finishedSignal: thread.quit (and deleteLater).
WorkerFinishedSlotsEager(i) == <<Slot("quit", i), Slot("finished", i)>>

WorkerFinishedSlots(i) == <<Slot("quit", i)>>

\* Slots connected to thread.finished: finishedFunction / finishFunction, if
\* an onFinishFunction was given (and deleteLater).
ThreadFinishedSlots(i) == IF onFinishFunction THEN <<Slot("finished", i)>> ELSE <<>>

(***************************************************************************)
(* ParallelLoopExecution                                                   *)
(***************************************************************************)
\* _getNextItem: the item returned (None when the queue is empty) and the
\* queue left by loopItems.pop(0).
getNextItemPopLast(q) ==
    IF q # <<>> THEN [item |-> q[Len(q)], rest |-> SubSeq(q, 1, Len(q) - 1)]
    ELSE [item |-> None, rest |-> q]

getNextItem(q) ==
    IF q # <<>> THEN [item |-> Head(q), rest |-> Tail(q)]
    ELSE [item |-> None, rest |-> q]

\* _runItem(it): the log after it ran, from log l ...
runItemLog(l, it) ==
    IF it = None THEN Append(l, Event("loopDone", None))
    ELSE Append(l, Event("start", it))

\* ... and the threads after it: a thread is created and started for it.
runItemThread(th, it) ==
    IF it = None THEN th ELSE [th EXCEPT ![it] = "started"]

\* ParallelLoopExecution.run, called after the log became l.
LoopRunFrom(l) ==
    /\ loopItems' = getNextItem(loopItems).rest
    /\ log' = runItemLog(l, getNextItem(loopItems).item)
    /\ thread' = runItemThread(thread, getNextItem(loopItems).item)

\* finishedFunction: does it report the item and go on with the next one?
finishedGuardAlways == TRUE

finishedGuard == ~exceptionOccurred

\* finishedFunction(item), the slot of thread.finished.
finishedFunction(i) ==
    IF finishedGuard
    THEN /\ LoopRunFrom(Append(log, Event("itemDone", i)))
         /\ UNCHANGED exceptionOccurred
    ELSE UNCHANGED <<loopItems, log, thread, exceptionOccurred>>

(***************************************************************************)
(* ParallelExecution                                                       *)
(***************************************************************************)
\* ParallelExecution.run: start the thread made by the constructor.
OneRun ==
    /\ thread' = [thread EXCEPT ![queue0[1]] = "started"]
    /\ log' = Append(log, Event("start", queue0[1]))
    /\ UNCHANGED loopItems

\* finishFunction, the slot of thread.finished.
finishFunction(i) ==
    /\ log' = IF ~exceptionOccurred THEN Append(log, Event("itemDone", i)) ELSE log
    /\ UNCHANGED <<loopItems, thread, exceptionOccurred>>

(***************************************************************************)
(* exceptionFunction (the same in both classes): the log after it ran.     *)
(***************************************************************************)
exceptionFunctionLog(l, i) == Append(l, Event("error", i))

(***************************************************************************)
(* Texts.  A text (a command output, an operand) is a sequence of          *)
(* characters; the characters used are listed with their code points.      *)
(***************************************************************************)
Digits == {"0", "1", "2", "3", "4", "5", "6", "7", "8", "9"}

Code(c) ==
    CASE c = "\n" -> 10
      [] c = "\"" -> 34
      [] c = "-" -> 45
      [] c = "." -> 46
      [] c = "0" -> 48
      [] c = "1" -> 49
      [] c = "2" -> 50
      [] c = "3" -> 51
      [] c = "4" -> 52
      [] c = "5" -> 53
      [] c = "6" -> 54
      [] c = "7" -> 55
      [] c = "8" -> 56
      [] c = "9" -> 57
      [] c = "a" -> 97

DigitVal(c) == Code(c) - 48

\* str.isspace for the characters used: int() and float() strip them.
IsSpace(c) == c = "\n"

\* The class [\x00-\x1F\x7F] of the regular expression in validate.
IsControl(c) == Code(c) <= 31 \/ Code(c) = 127

\* re.sub(r'[\x00-\x1F\x7F]', '', s)
RECURSIVE StripControl(_)
StripControl(s) ==
    IF s = <<>> THEN <<>>
    ELSE IF IsControl(Head(s)) THEN StripControl(Tail(s))
         ELSE <<Head(s)>> \o StripControl(Tail(s))

\* s without its points.
RECURSIVE NoDots(_)
NoDots(s) ==
    IF s = <<>> THEN <<>>
    ELSE IF Head(s) = "." THEN NoDots(Tail(s))
         ELSE <<Head(s)>> \o NoDots(Tail(s))

\* str.strip(): s without its leading and trailing white space.
RECURSIVE Strip(_)
Strip(s) ==
    IF s = <<>> THEN s
    ELSE IF IsSpace(Head(s)) THEN Strip(Tail(s))
    ELSE IF IsSpace(s[Len(s)]) THEN Strip(SubSeq(s, 1, Len(s) - 1))
    ELSE s

\* The number written by a sequence of digits.
RECURSIVE DigitsVal(_)
DigitsVal(s) ==
    IF s = <<>> THEN 0
    ELSE 10 * DigitsVal(SubSeq(s, 1, Len(s) - 1)) + DigitVal(s[Len(s)])

\* int(s) succeeds: optional white space around a non-empty run of digits.
IntParses(s) ==
    /\ Strip(s) # <<>>
    /\ \A k \in 1..Len(Strip(s)) : Strip(s)[k] \in Digits

\* float(s) succeeds: optional white space around digits with at most one
\* point and at least one digit.
FloatParses(s) ==
    /\ \A k \in 1..Len(Strip(s)) : Strip(s)[k] \in Digits \cup {"."}
    /\ Len(NoDots(Strip(s))) >= Len(Strip(s)) - 1
    /\ NoDots(Strip(s)) # <<>>

(***************************************************************************)
(* Values.  A Python value in validate is a str, an int or a float; a      *)
(* number is kept exactly, as num / 10^exp.                                *)
(***************************************************************************)
StrV(s) == [t |-> "str", s |-> s, num |-> 0, exp |-> 0]
IntV(n) == [t |-> "int", s |-> <<>>, num |-> n, exp |-> 0]
FloatV(n, e) == [t |-> "float", s |-> <<>>, num |-> n, exp |-> e]

\* int(s), for a text that parses.
IntOf(s) == IntV(DigitsVal(Strip(s)))

\* The number of characters after the point of a stripped float text.
RECURSIVE AfterDot(_)
AfterDot(s) ==
    IF s = <<>> THEN 0
    ELSE IF s[Len(s)] = "." THEN 0
    ELSE IF \E k \in 1..Len(s) : s[k] = "." THEN 1 + AfterDot(SubSeq(s, 1, Len(s) - 1))
    ELSE 0

\* float(s), for a text that parses.
FloatOfText(s) == FloatV(DigitsVal(NoDots(Strip(s))), AfterDot(Strip(s)))

\* float(v) of a value: of a parsing text, or of an int.
FloatOf(v) == IF v.t = "str" THEN FloatOfText(v.s) ELSE FloatV(v.num, v.exp)

RECURSIVE Pow10(_)
Pow10(e) == IF e = 0 THEN 1 ELSE 10 * Pow10(e - 1)

\* Comparison of two numbers.
NumEq(x, y) == x.num * Pow10(y.exp) = y.num * Pow10(x.exp)
NumLess(x, y) == x.num * Pow10(y.exp) < y.num * Pow10(x.exp)

\* Comparison of two texts: by code point, a proper prefix first.
RECURSIVE StrLess(_, _)
StrLess(a, b) ==
    IF b = <<>> THEN FALSE
    ELSE IF a = <<>> THEN TRUE
    ELSE IF Code(Head(a)) # Code(Head(b)) THEN Code(Head(a)) < Code(Head(b))
    ELSE StrLess(Tail(a), Tail(b))

\* The decimal digits of a natural number.
RECURSIVE NatText(_)
NatText(n) ==
    IF n < 10 THEN <<SubSeq(<<"0", "1", "2", "3", "4", "5", "6", "7", "8", "9">>, n + 1, n + 1)[1]>>
    ELSE NatText(n \div 10) \o NatText(n % 10)

\* The last e digits of f, with leading zeros.
RECURSIVE PadText(_, _)
PadText(f, e) == IF e = 0 THEN <<>> ELSE PadText(f \div 10, e - 1) \o NatText(f % 10)

\* The digits of the fraction f / 10^e (e >= 1) without its trailing zeros,
\* but with one digit at least.
RECURSIVE FracText(_, _)
FracText(f, e) ==
    IF e > 1 /\ f % 10 = 0 THEN FracText(f \div 10, e - 1) ELSE PadText(f, e)

\* str(v): a str is itself, an int its digits, a float its shortest
\* representation (at least one digit after the point).
Str(v) ==
    CASE v.t = "str" -> v.s
      [] v.t = "int" -> NatText(v.num)
      [] v.t = "float" ->
            IF v.exp = 0 THEN NatText(v.num) \o <<".", "0">>
            ELSE NatText(v.num \div Pow10(v.exp)) \o <<".">>
                 \o FracText(v.num % Pow10(v.exp), v.exp)

\* needle in hay
Contains(needle, hay) ==
    \E k \in 0..(Len(hay) - Len(needle)) : SubSeq(hay, k + 1, k + Len(needle)) = needle

(***************************************************************************)
(* TestResult, Operation, ResultCommand and ValidationCommand              *)
(***************************************************************************)
NOTRUN == 0
OK == 1
ERROR == 2
UNDEFINED == 3
NOT_ALL_OK == 4

SAME == 0
COMPARISON == 1

\* ValidationCommand.operators
operators == {"==", "<>", "<", ">", "<=", ">=", "contain", "not contain"}

ResultCommand(o, rc, et, toe, res) ==
    [output |-> o, returnCode |-> rc, executionTime |-> et, timeOfExecution |-> toe,
     result |-> res]

ValidationCommand(operation, operator, operatorVal) ==
    [operation |-> operation, operator |-> operator, operatorVal |-> operatorVal]

\* ResultCommand.__eq__ as the dataclass generates it: the fields declared
\* with compare=False are left out.
ResultEqAllFields(a, b) == a = b

ResultEq(a, b) == a.output = b.output /\ a.returnCode = b.returnCode

\* Python's True and False are the numbers 1 and 0.
Bool(b) == IF b THEN 1 ELSE 0

\* operatorVal.startswith('"') and operatorVal.endswith('"')
Quoted(v) == v # <<>> /\ Head(v) = "\"" /\ v[Len(v)] = "\""

\* str(literal_eval(v)) of a quoted text, or v itself when literal_eval
\* raises: a text of at most five characters evaluates iff it is a string
\* literal, i.e. nothing between its two quotes is a quote or a line break.
LiteralEvalKeep(v) == v

LiteralEval(v) ==
    IF /\ Len(v) >= 2
       /\ \A k \in 2..(Len(v) - 1) : v[k] # "\"" /\ v[k] # "\n"
    THEN SubSeq(v, 2, Len(v) - 1)
    ELSE v

\* validate, lines 116-120: output = float(output) and, when that raises,
\* the output as text without its control characters.
CoerceOutput(out) ==
    IF FloatParses(out) THEN FloatOfText(out) ELSE StrV(StripControl(out))

\* validate, lines 98-120: the values of val and output that reach the
\* operator match.
Coerce(operatorVal, out) ==
    IF Quoted(operatorVal)
    THEN [val |-> StrV(LiteralEval(operatorVal)), output |-> StrV(out)]
    ELSE IF IntParses(operatorVal) /\ IntParses(out)
    THEN [val |-> IntOf(operatorVal), output |-> IntOf(out)]
    ELSE IF IntParses(operatorVal)
    THEN \* int(output) raised after val = int(operatorVal): float(val)
         [val |-> FloatOf(IntOf(operatorVal)), output |-> CoerceOutput(out)]
    ELSE IF FloatParses(operatorVal)
    THEN [val |-> FloatOf(StrV(operatorVal)), output |-> CoerceOutput(out)]
    ELSE [val |-> StrV(operatorVal), output |-> StrV(StripControl(out))]

\* One of x, y is a str and the other a number.
Mixed(x, y) == (x.t = "str") # (y.t = "str")

\* x == y and x < y in Python; x < y is only asked of unmixed values.
ValEq(x, y) ==
    IF Mixed(x, y) THEN FALSE
    ELSE IF x.t = "str" THEN x.s = y.s ELSE NumEq(x, y)

ValLess(x, y) == IF x.t = "str" THEN StrLess(x.s, y.s) ELSE NumLess(x, y)

\* An ordering comparison of a str with a number raises TypeError.
Ordering(x, y, b) ==
    IF Mixed(x, y) THEN [raised |-> TRUE, value |-> 0]
    ELSE [raised |-> FALSE, value |-> Bool(b)]

\* validate, lines 122-143: the value the operator match assigns to
\* currentTestResult, or the exception raised.
Match(operator, output, val) ==
    CASE operator = "==" -> [raised |-> FALSE, value |-> Bool(ValEq(output, val))]
      [] operator = "<>" -> [raised |-> FALSE, value |-> Bool(~ValEq(output, val))]
      [] operator = ">" -> Ordering(output, val, ValLess(val, output))
      [] operator = "<" -> Ordering(output, val, ValLess(output, val))
      [] operator = ">=" -> Ordering(output, val, ~ValLess(output, val))
      [] operator = "<=" -> Ordering(output, val, ~ValLess(val, output))
      [] operator = "contain" ->
            [raised |-> FALSE, value |-> Bool(Contains(Str(val), Str(output)))]
      [] operator = "not contain" ->
            [raised |-> FALSE, value |-> Bool(~Contains(Str(val), Str(output)))]
      [] OTHER -> [raised |-> FALSE, value |-> ERROR]

\* validate, lines 152-156: the value returned.
AggregateLast(prev, cur) == cur

Aggregate(prev, cur) == IF prev = NOTRUN \/ cur = prev THEN cur ELSE NOT_ALL_OK

\* ValidationCommand.validate(originalResult, testResult, prevTestResult):
\* whether it raised, the verdict it left in testResult.result and the
\* verdict it returned.
validate(cmd, originalResult, testResult, prevTestResult) ==
    LET co == Coerce(cmd.operatorVal, testResult.output)
        m == CASE cmd.operation = SAME ->
                    [raised |-> FALSE, value |-> Bool(ResultEq(originalResult, testResult))]
               [] cmd.operation = COMPARISON -> Match(cmd.operator, co.output, co.val)
               [] OTHER -> [raised |-> FALSE, value |-> 0]
        \* line 143: an undefined operator overwrites prevTestResult
        prev == IF cmd.operation = COMPARISON /\ cmd.operator \notin operators
                THEN UNDEFINED ELSE prevTestResult
        \* line 148
        currentTestResult == IF m.value # 0 THEN OK ELSE ERROR
    IN  IF m.raised
        THEN [raised |-> TRUE, result |-> testResult.result, ret |-> prevTestResult]
        ELSE [raised |-> FALSE, result |-> currentTestResult,
              ret |-> Aggregate(prev, currentTestResult)]

(***************************************************************************)
(* Initial states: the execution right after its construction by one of    *)
(* the four widget actions.                                                *)
(***************************************************************************)
PexInit ==
    /\ action \in LoopActions \cup OneActions
    /\ onFinishFunction = PassesOnFinish(action)
    /\ onException = PassesOnException(action)
    /\ queue0 \in IF action \in LoopActions
                  THEN DistinctSeqs(ItemIds, MaxItems)
                  ELSE {<<i>> : i \in ItemIds}
    /\ loopItems = IF action \in LoopActions THEN queue0 ELSE <<>>
    /\ exceptionOccurred = FALSE
    /\ started = FALSE
    /\ thread = [i \in ItemIds |-> "idle"]
    /\ mainQueue = <<>>
    /\ log = <<>>

(***************************************************************************)
(* Actions                                                                 *)
(***************************************************************************)
\* The caller calls self.pex.run().
PexRun ==
    /\ ~started
    /\ started' = TRUE
    /\ IF IsLoop THEN LoopRunFrom(log) ELSE OneRun
    /\ UNCHANGED <<action, onFinishFunction, onException, exceptionOccurred,
                   mainQueue, queue0>>

\* thread.started -> Worker.run: the job begins on the worker thread.
WorkerRun(i) ==
    /\ thread[i] = "started"
    /\ thread' = [thread EXCEPT ![i] = "running"]
    /\ log' = Append(log, Event("job", i))
    /\ UNCHANGED <<action, onFinishFunction, onException, loopItems,
                   exceptionOccurred, started, mainQueue, queue0>>

\* Worker.run: runFunction returned; finishedSignal is emitted.
JobReturn(i) ==
    /\ thread[i] = "running"
    /\ thread' = [thread EXCEPT ![i] = "returned"]
    /\ log' = Append(log, Event("return", i))
    /\ mainQueue' = mainQueue \o WorkerFinishedSlots(i)
    /\ UNCHANGED <<action, onFinishFunction, onException, loopItems,
                   exceptionOccurred, started, queue0>>

\* Worker.run: runFunction raised; exceptionSignal is emitted.  Its slots are
\* thread.quit, deleteLater and, if onException was given, exceptionFunction.
\* exceptionFunction is a method of a plain Python object: whether the
\* binding runs it at once on the worker thread or queues it to the GUI
\* thread is not fixed by the source, so both are possible.
JobRaise(i) ==
    /\ thread[i] = "running"
    /\ thread' = [thread EXCEPT ![i] = "raised"]
    /\ \/ /\ onException
          /\ exceptionOccurred' = TRUE
          /\ log' = exceptionFunctionLog(Append(log, Event("raise", i)), i)
          /\ mainQueue' = Append(mainQueue, Slot("quit", i))
       \/ /\ onException
          /\ log' = Append(log, Event("raise", i))
          /\ mainQueue' = mainQueue \o <<Slot("quit", i), Slot("exception", i)>>
          /\ UNCHANGED exceptionOccurred
       \/ /\ ~onException
          /\ log' = Append(log, Event("raise", i))
          /\ mainQueue' = Append(mainQueue, Slot("quit", i))
          /\ UNCHANGED exceptionOccurred
    /\ UNCHANGED <<action, onFinishFunction, onException, loopItems, started, queue0>>

\* The GUI thread's event loop delivers thread.quit.
MainQuit ==
    /\ mainQueue # <<>>
    /\ Head(mainQueue).sig = "quit"
    /\ mainQueue' = Tail(mainQueue)
    /\ thread' = [thread EXCEPT ![Head(mainQueue).item] = "quitting"]
    /\ UNCHANGED <<action, onFinishFunction, onException, loopItems,
                   exceptionOccurred, started, log, queue0>>

\* The worker thread's event loop has exited: thread.finished is emitted.
ThreadFinished(i) ==
    /\ thread[i] = "quitting"
    /\ thread' = [thread EXCEPT ![i] = "finished"]
    /\ mainQueue' = mainQueue \o ThreadFinishedSlots(i)
    /\ UNCHANGED <<action, onFinishFunction, onException, loopItems,
                   exceptionOccurred, started, log, queue0>>

\* The GUI thread's event loop delivers a queued exceptionFunction.
MainException ==
    /\ mainQueue # <<>>
    /\ Head(mainQueue).sig = "exception"
    /\ mainQueue' = Tail(mainQueue)
    /\ exceptionOccurred' = TRUE
    /\ log' = exceptionFunctionLog(log, Head(mainQueue).item)
    /\ UNCHANGED <<action, onFinishFunction, onException, loopItems, started,
                   thread, queue0>>

\* The GUI thread's event loop delivers the slot of thread.finished.
MainFinished ==
    /\ mainQueue # <<>>
    /\ Head(mainQueue).sig = "finished"
    /\ mainQueue' = Tail(mainQueue)
    /\ IF IsLoop THEN finishedFunction(Head(mainQueue).item)
                 ELSE finishFunction(Head(mainQueue).item)
    /\ UNCHANGED <<action, onFinishFunction, onException, started, queue0>>

(***************************************************************************)
(* One call of validate.                                                   *)
(***************************************************************************)
OperandTexts ==
    { <<>>, <<"5">>, <<"0", "7">>, <<"5", ".", "0">>, <<"a">>, <<"a", "5">>,
      <<"\"", "5", "\"">>, <<"\"", "5", ".", "0", "\"">>, <<"\"", "a", "\"">>,
      <<"\"">>, <<"\"", "5">> }

OutputTexts ==
    { <<>>, <<"5">>, <<"5", "\n">>, <<"7">>, <<"0", "7">>, <<"5", ".", "0">>,
      <<"7", ".", "5", "\n">>, <<"a">>, <<"a", "\n">>, <<"a", "5">>, <<"5", "7">> }

\* An operator that is none of ValidationCommand.operators.
UnknownOperator == "~"

\* An operation that is neither SAME nor COMPARISON.
UnknownOperation == 2

Durations == {1, 2}

\* The verdicts Item.test can hand to validate as prevTestResult.
SeedVerdicts == {NOTRUN, OK, ERROR, NOT_ALL_OK}

NoOutcome == [raised |-> FALSE, result |-> NOTRUN, ret |-> NOTRUN]

ValIdle ==
    /\ vCmd = ValidationCommand(SAME, "==", <<>>)
    /\ vOriginal = ResultCommand(<<>>, 0, 1, <<0, 0>>, NOTRUN)
    /\ vTest = ResultCommand(<<>>, 0, 1, <<0, 0>>, NOTRUN)
    /\ vPrev = NOTRUN
    /\ vOut = NoOutcome
    /\ vPc = "idle"

ValInit ==
    /\ \/ /\ vCmd = ValidationCommand(SAME, "==", <<>>)
          /\ vOriginal \in {ResultCommand(o, rc, 1, <<1, 1>>, NOTRUN) :
                              o \in {<<"5">>, <<"5", "\n">>, <<"a">>}, rc \in {0, 1}}
       \/ /\ vCmd \in {ValidationCommand(COMPARISON, op, v) :
                         op \in operators \cup {UnknownOperator}, v \in OperandTexts}
                      \cup {ValidationCommand(UnknownOperation, "==", <<"5">>)}
          /\ vOriginal = ResultCommand(<<"5">>, 0, 1, <<1, 1>>, NOTRUN)
    /\ vTest \in {ResultCommand(o, rc, d, <<2, 1>>, NOTRUN) :
                    o \in OutputTexts, rc \in {0, 1}, d \in Durations}
    /\ vPrev \in SeedVerdicts
    /\ vOut = NoOutcome
    /\ vPc = "call"

\* self.validationCmd.validate(result, test, self.testResult)
Validate ==
    /\ vPc = "call"
    /\ vPc' = "done"
    /\ vOut' = validate(vCmd, vOriginal, vTest, vPrev)
    /\ vTest' = [vTest EXCEPT !.result = validate(vCmd, vOriginal, vTest, vPrev).result]
    /\ UNCHANGED <<vCmd, vOriginal, vPrev>>

(***************************************************************************)
(* Item: run, test, clearTest.                                             *)
(***************************************************************************)
\* What one repetition of the command can print (stdout, return code) when
\* it writes nothing to its error stream.
RunOutputs ==
    {[output |-> <<"5">>, returnCode |-> 0], [output |-> <<"a">>, returnCode |-> 0]}

ItemRules ==
    {ValidationCommand(SAME, "==", <<>>), ValidationCommand(UnknownOperation, "==", <<"5">>)}
    \cup {ValidationCommand(COMPARISON, op, <<"5">>) : op \in operators \cup {UnknownOperator}}

hasBeenRun(it) == Len(it.result) = it.repetitions

hasBeenTested(it) == Len(it.testOutput) = it.repetitions

\* _execute(resultOutputSave): the list after the call in which the first n
\* repetitions wrote nothing to the error stream and printed outs; with
\* n < repetitions the next repetition wrote to it and the call raised.
\* Every repetition is taken to last one unit of time and is stamped with
\* its place in the call.
execute(list, n, outs) ==
    list \o [k \in 1..n |->
               ResultCommand(outs[k].output, outs[k].returnCode, 1, <<k>>, NOTRUN)]

\* The calls of _execute offered to an item on a list: n repetitions succeed
\* (a call with n < repetitions fails), as long as the list stays within
\* MaxResults.
Executions(it, list) == {n \in 0..it.repetitions : Len(list) + n <= MaxResults}

\* The loop of Item.test over zip(self.result, self.testOutput), from pair k:
\* acc holds testResult, testOutput and whether validate raised.
RECURSIVE testLoop(_, _, _, _)
testLoop(cmd, base, k, acc) ==
    IF acc.raised \/ k > Len(base) \/ k > Len(acc.testOutput) THEN acc
    ELSE LET v == validate(cmd, base[k], acc.testOutput[k], acc.testResult)
         IN  testLoop(cmd, base, k + 1,
                 IF v.raised THEN [acc EXCEPT !.raised = TRUE]
                 ELSE [testResult |-> v.ret,
                       testOutput |-> [acc.testOutput EXCEPT ![k].result = v.result],
                       raised |-> FALSE])

Last(op, acted, raised) == [op |-> op, acted |-> acted, raised |-> raised]

ItemIdle ==
    /\ item = [id |-> IntV(0), name |-> "Undeclared", category |-> "Undetermined",
               runcode |-> "echo 5",
               repetitions |-> 1, enabled |-> TRUE, result |-> <<>>,
               validationCmd |-> ValidationCommand(SAME, "==", <<>>),
               testResult |-> NOTRUN, testOutput |-> <<>>, wasTestRepeated |-> 0]
    /\ last = Last("init", FALSE, "none")

ItemInit ==
    /\ item \in [id : {IntV(0)}, name : {"Undeclared"}, category : {"Undetermined"},
                 runcode : {"echo 5"},
                 repetitions : 0..MaxReps, enabled : {TRUE}, result : {<<>>},
                 validationCmd : ItemRules, testResult : {NOTRUN},
                 testOutput : {<<>>}, wasTestRepeated : {0}]
    /\ last = Last("init", FALSE, "none")

\* Item.run(), the command printing one of outputs at each repetition.
ItemRunWith(outputs) ==
    IF hasBeenRun(item)
    THEN /\ last' = Last("run", FALSE, "none")
         /\ UNCHANGED item
    ELSE \E n \in Executions(item, item.result) : \E outs \in [1..n -> outputs] :
            /\ item' = [item EXCEPT !.result = execute(@, n, outs)]
            /\ last' = Last("run", TRUE,
                            IF n < item.repetitions THEN "CalledProcessError" ELSE "none")

\* Item.run()
ItemRun == ItemRunWith(RunOutputs)

\* Item.test()
ItemTest ==
    IF item.result = <<>> \/ hasBeenTested(item)
    THEN /\ last' = Last("test", FALSE, "none")
         /\ UNCHANGED item
    ELSE \E n \in Executions(item, item.testOutput) : \E outs \in [1..n -> RunOutputs] :
            LET out == execute(item.testOutput, n, outs)
                acc == testLoop(item.validationCmd, item.result, 1,
                                [testResult |-> item.testResult, testOutput |-> out,
                                 raised |-> FALSE])
            IN  IF n < item.repetitions
                THEN /\ item' = [item EXCEPT !.testOutput = out]
                     /\ last' = Last("test", TRUE, "CalledProcessError")
                ELSE /\ item' = [item EXCEPT !.testOutput = acc.testOutput,
                                             !.testResult = acc.testResult]
                     /\ last' = Last("test", TRUE,
                                     IF acc.raised THEN "TypeError" ELSE "none")

\* Item.clearTest(); the history keeps whether there were test results.
ItemClearTestAll ==
    /\ item' = [item EXCEPT !.testResult = NOTRUN, !.testOutput = <<>>, !.result = <<>>]
    /\ last' = Last("clearTest", item.testOutput # <<>>, "none")

ItemClearTest ==
    /\ item' = [item EXCEPT !.testResult = NOTRUN, !.testOutput = <<>>]
    /\ last' = Last("clearTest", item.testOutput # <<>>, "none")

(***************************************************************************)
(* Specifications.  Spec: a background execution; SpecValidate: one call   *)
(* of validate; SpecItem: the methods of one Item.                         *)
(***************************************************************************)
\* The project's items are not looked at: one enabled item in every place.
ColIdle == items = [i \in ItemIds |-> [enabled |-> TRUE, repetitions |-> 1, category |-> "A"]]

\* The widgets after construction: everything enabled, nothing running.
UiIdle ==
    /\ toolbars = TRUE
    /\ topBar = [build |-> TRUE, test |-> TRUE]
    /\ currentlyRunningTest = FALSE
    /\ jobs = <<>>
    /\ uiDone = [op |-> "init"]

\* The addresses of the Item objects.
Refs == 1..MaxObjs

\* An address that holds no Item yet.
Free == [live |-> FALSE, id |-> IntV(0 - 1), name |-> "Undeclared", result |-> <<>>,
         testResult |-> NOTRUN, testOutput |-> <<>>, wasTestRepeated |-> 0]

\* No file: the collection is empty and nothing was saved.
NoFile == [saved |-> FALSE, fields |-> <<>>, items |-> <<>>, written |-> <<>>]

\* TestDataFields(), the metadata of a new project.
TestDataFields(name, date, testCount) ==
    [name |-> name, project |-> "", date |-> date, testCount |-> testCount,
     author |-> "", conductor |-> ""]

\* No project is open: an empty collection, empty stacks.
DocIdle ==
    /\ heap = [r \in Refs |-> Free]
    /\ parentItems = <<>>
    /\ currentTest = <<>>
    /\ undoStack = <<>>
    /\ redoStack = <<>>
    /\ cmdCalledFromHere = FALSE
    /\ currentWidget = "setup"
    /\ file = NoFile
    /\ projectDataFields = TestDataFields("", "", "")
    /\ done = [op |-> "init"]

Init == PexInit /\ ValIdle /\ ItemIdle /\ ColIdle /\ UiIdle /\ DocIdle

Next ==
    \/ PexRun /\ UNCHANGED <<valVars, itemVars, colVars, uiVars, docVars>>
    \/ (\E i \in ItemIds : WorkerRun(i)) /\ UNCHANGED <<valVars, itemVars, colVars, uiVars, docVars>>
    \/ (\E i \in ItemIds : JobReturn(i)) /\ UNCHANGED <<valVars, itemVars, colVars, uiVars, docVars>>
    \/ (\E i \in ItemIds : JobRaise(i)) /\ UNCHANGED <<valVars, itemVars, colVars, uiVars, docVars>>
    \/ MainQuit /\ UNCHANGED <<valVars, itemVars, colVars, uiVars, docVars>>
    \/ (\E i \in ItemIds : ThreadFinished(i)) /\ UNCHANGED <<valVars, itemVars, colVars, uiVars, docVars>>
    \/ MainException /\ UNCHANGED <<valVars, itemVars, colVars, uiVars, docVars>>
    \/ MainFinished /\ UNCHANGED <<valVars, itemVars, colVars, uiVars, docVars>>

Spec == Init /\ [][Next]_vars

\* No background execution: the state of a finished single run.
PexIdle ==
    /\ action = "run-item"
    /\ onFinishFunction = TRUE
    /\ onException = TRUE
    /\ queue0 = <<1>>
    /\ loopItems = <<>>
    /\ exceptionOccurred = FALSE
    /\ started = FALSE
    /\ thread = [i \in ItemIds |-> "idle"]
    /\ mainQueue = <<>>
    /\ log = <<>>

InitValidate == PexIdle /\ ValInit /\ ItemIdle /\ ColIdle /\ UiIdle /\ DocIdle

NextValidate == Validate /\ UNCHANGED <<pexVars, itemVars, colVars, uiVars, docVars>>

SpecValidate == InitValidate /\ [][NextValidate]_vars

InitItem == PexIdle /\ ValIdle /\ ItemInit /\ ColIdle /\ UiIdle /\ DocIdle

NextItem ==
    \/ ItemRun /\ UNCHANGED <<pexVars, valVars, colVars, uiVars, docVars>>
    \/ ItemTest /\ UNCHANGED <<pexVars, valVars, colVars, uiVars, docVars>>
    \/ ItemClearTest /\ UNCHANGED <<pexVars, valVars, colVars, uiVars, docVars>>

SpecItem == InitItem /\ [][NextItem]_vars

\* The caller calls run() right after the construction, both event loops
\* deliver what is queued, and every job ends (returns or raises).
Fairness ==
    /\ WF_pexVars(PexRun)
    /\ WF_pexVars(MainQuit) /\ WF_pexVars(MainException) /\ WF_pexVars(MainFinished)
    /\ \A i \in ItemIds :
          /\ WF_pexVars(WorkerRun(i))
          /\ WF_pexVars(JobReturn(i) \/ JobRaise(i))
          /\ WF_pexVars(ThreadFinished(i))

FairSpec == Spec /\ Fairness

(***************************************************************************)
(* SetupWidget: the edits of the selected item, through its table row      *)
(* (updateDetailsFromTable) and through the details form                   *)
(* (updateTableFromDetails); BuildWidget: run-item, run-all-items and      *)
(* clear-item; loadItemsFromFile.                                          *)
(***************************************************************************)
\* int(s) of Python, with its optional sign.
SignedIntParses(s) ==
    IF Strip(s) # <<>> /\ Head(Strip(s)) = "-"
    THEN IntParses(Tail(Strip(s))) /\ Strip(Tail(Strip(s))) = Tail(Strip(s))
    ELSE IntParses(s)

SignedIntOf(s) ==
    IF Head(Strip(s)) = "-" THEN 0 - DigitsVal(Tail(Strip(s))) ELSE DigitsVal(Strip(s))

\* str(n) of an int.
IntText(n) == IF n < 0 THEN <<"-">> \o NatText(0 - n) ELSE NatText(n)

\* str(item.id): the id is an int, or the text the details form stored.
IdText(id) == IF id.t = "int" THEN IntText(id.num) ELSE id.s

\* The ids of the other items of the collection.
OtherIds == {IntV(2)}

\* SetupWidget.checkIDOk(newID) for a text, among the ids of the items: 0
\* when the id can be taken.
checkIDOkAmong(newID, ids) ==
    IF ~SignedIntParses(newID) THEN 1
    ELSE IF SignedIntOf(newID) < 0 THEN 3
    ELSE IF IntV(SignedIntOf(newID)) \in ids THEN 2
    ELSE 0

\* checkIDOk for the one item of SpecEdit, among the other ids.
checkIDOk(newID) == checkIDOkAmong(newID, OtherIds)

\* CodeTextField._validateCommand: no rm, sudo, &&, || or ; in the command.
validateCommand(command) == command \notin {"rm x"}

\* CodeTextField.getCommand(validateCommand): None for a refused command.
getCommand(commandText, validate_) ==
    IF validate_ /\ ~validateCommand(commandText) THEN "None" ELSE commandText

\* Item.isEnabled
isEnabled(it) == it.enabled /\ it.repetitions > 0

\* The texts typed into an id, a name or category, a repetitions cell/field.
IdTexts == {<<"1">>, <<"2">>, <<"a">>, <<"-", "1">>}

NameTexts == {"", "other"}

RepetitionsTexts ==
    {<<>>, <<"-">>, <<"-", "1">>, <<"a">>} \cup {NatText(k) : k \in 0..MaxReps}

Commands == {"echo 5", "echo a", "rm x"}

\* updateDetailsFromTable(row, column): the item after the cell of the
\* column got the text.
updateDetailsFromTable(it, column, text) ==
    CASE column = 0 ->
            IF checkIDOk(text) = 0 THEN [it EXCEPT !.id = IntV(SignedIntOf(text))] ELSE it
      [] column = 1 -> IF text = "" THEN it ELSE [it EXCEPT !.name = text]
      [] column = 2 -> IF text = "" THEN it ELSE [it EXCEPT !.category = text]
      [] column = 3 ->
            IF SignedIntParses(text) /\ SignedIntOf(text) >= 0
            THEN [it EXCEPT !.repetitions = SignedIntOf(text),
                            !.result = IF Len(@) # SignedIntOf(text) THEN <<>> ELSE @]
            ELSE it

\* The contents of the details form when it shows the item.
showDetails(it) ==
    [id |-> IdText(it.id), name |-> it.name, category |-> it.category,
     repetitions |-> IntText(it.repetitions), enabled |-> it.enabled,
     runcode |-> it.runcode]

\* updateTableFromDetails: the item after the form with contents f was
\* edited, under the validateCommands setting.
updateTableFromDetails(it, f, validateCommands) ==
    LET withId == IF f.id # IdText(it.id) THEN [it EXCEPT !.id = StrV(f.id)] ELSE it
        named == [withId EXCEPT !.name = f.name, !.category = f.category]
        counted == [named EXCEPT !.repetitions = SignedIntOf(f.repetitions),
                                 !.result = IF Len(@) # SignedIntOf(f.repetitions)
                                            THEN <<>> ELSE @,
                                 !.enabled = f.enabled]
        inputRunCode == getCommand(f.runcode, validateCommands)
    IN  IF f.id # IdText(it.id) /\ checkIDOk(f.id) # 0 THEN it
        ELSE IF ~SignedIntParses(f.repetitions) THEN named
        ELSE IF inputRunCode = "None" THEN counted
        ELSE [counted EXCEPT !.result = IF inputRunCode # it.runcode THEN <<>> ELSE @,
                             !.runcode = inputRunCode]

\* The items a file can hold: any repetitions, any number of results (here
\* all with the same output).
FileItems ==
    {[id |-> IntV(0), name |-> "Undeclared", category |-> "Undetermined",
      runcode |-> "echo 5", repetitions |-> r, enabled |-> TRUE,
      result |-> [k \in 1..n |-> ResultCommand(<<"5">>, 0, 1, <<k>>, NOTRUN)],
      validationCmd |-> ValidationCommand(SAME, "==", <<>>),
      testResult |-> NOTRUN, testOutput |-> <<>>, wasTestRepeated |-> 0] :
        r \in (0 - 1)..MaxReps, n \in 0..MaxResults}

\* list[:n] of Python, for n >= 0.
Prefix(list, n) == SubSeq(list, 1, IF n < Len(list) THEN n ELSE Len(list))

\* A load that appends the item as the file gives it.
loadItemAsIs(appendItem) == appendItem

\* loadItemsFromFile: the item appended for an item of the file.
loadItem(appendItem) ==
    LET repetitions == IF appendItem.repetitions < 0 THEN 0 ELSE appendItem.repetitions
    IN  [appendItem EXCEPT
            !.repetitions = repetitions,
            !.result = IF @ # <<>> THEN Prefix(@, repetitions) ELSE @,
            !.testOutput = IF @ # <<>> THEN Prefix(@, repetitions) ELSE @]

\* History of an operation of the widgets: the operation and what the edited
\* fields and the results were before it.
Edited(op, before) ==
    [op |-> op, acted |-> TRUE, raised |-> "none",
     before |-> [runcode |-> before.runcode, repetitions |-> before.repetitions,
                 result |-> before.result]]

\* The user edits a cell of the selected row (cellChanged).
EditTable ==
    \E column \in 0..3 :
        \E text \in CASE column = 0 -> IdTexts
                      [] column = 3 -> RepetitionsTexts
                      [] OTHER -> NameTexts :
            /\ item' = updateDetailsFromTable(item, column, text)
            /\ last' = Edited("edit-table", item)

\* The user edits a field of the details form (textEdited, stateChanged).
EditDetails ==
    \E field \in {"id", "name", "category", "repetitions", "enabled", "runcode"} :
        \E value \in CASE field = "id" -> IdTexts
                       [] field = "repetitions" -> RepetitionsTexts
                       [] field = "enabled" -> BOOLEAN
                       [] field = "runcode" -> Commands
                       [] OTHER -> NameTexts :
            \E validateCommands \in IF field = "runcode" THEN BOOLEAN ELSE {TRUE} :
                /\ item' = updateTableFromDetails(
                              item, [showDetails(item) EXCEPT ![field] = value],
                              validateCommands)
                /\ last' = Edited("edit-details", item)

\* updateEnabledCheckboxFromTable: the check box of the row.  It sets
\* enabledField; when the form shows this item (it is the selected row) and
\* the box changes, toggled calls updateTableFromDetails.
EditEnabled ==
    \E state \in BOOLEAN : \E selected \in BOOLEAN :
        /\ item' = IF selected /\ state # item.enabled
                   THEN updateTableFromDetails(
                            [item EXCEPT !.enabled = state],
                            [showDetails(item) EXCEPT !.enabled = state], TRUE)
                   ELSE [item EXCEPT !.enabled = state]
        /\ last' = Edited("edit-enabled", item)

\* What the command of the edited item prints.
BuildOutputs == {[output |-> <<"5">>, returnCode |-> 0]}

\* BuildWidget.runAction('run-item'): it returns at once for an item that is
\* disabled, has no repetitions or holds its results; else the job is
\* item.run().
BuildRunItem ==
    IF ~item.enabled \/ item.repetitions <= 0 \/ hasBeenRun(item)
    THEN /\ UNCHANGED item
         /\ last' = Last("run-item", FALSE, "none")
    ELSE ItemRunWith(BuildOutputs)

\* BuildWidget.runAction('run-all-items'): the job of a queued item.
BuildRunAll ==
    /\ isEnabled(item)
    /\ ItemRunWith(BuildOutputs)

\* BuildWidget.runAction('clear-item'): it returns at once for a disabled
\* item.
BuildClearItem ==
    /\ item' = IF item.enabled THEN [item EXCEPT !.result = <<>>] ELSE item
    /\ last' = Edited("clear-item", item)

\* The collection is replaced by the items of a file.
Load ==
    \E appendItem \in FileItems :
        /\ item' = loadItem(appendItem)
        /\ last' = Edited("load", item)

\* SpecEdit: one item of the editable collection, from the item addItem makes.
InitEdit == PexIdle /\ ValIdle /\ ItemIdle /\ ColIdle /\ UiIdle /\ DocIdle

NextEdit ==
    \/ EditTable /\ UNCHANGED <<pexVars, valVars, colVars, uiVars, docVars>>
    \/ EditDetails /\ UNCHANGED <<pexVars, valVars, colVars, uiVars, docVars>>
    \/ EditEnabled /\ UNCHANGED <<pexVars, valVars, colVars, uiVars, docVars>>
    \/ BuildRunItem /\ UNCHANGED <<pexVars, valVars, colVars, uiVars, docVars>>
    \/ BuildRunAll /\ UNCHANGED <<pexVars, valVars, colVars, uiVars, docVars>>
    \/ BuildClearItem /\ UNCHANGED <<pexVars, valVars, colVars, uiVars, docVars>>
    \/ Load /\ UNCHANGED <<pexVars, valVars, colVars, uiVars, docVars>>

SpecEdit == InitEdit /\ [][NextEdit]_vars

(***************************************************************************)
(* TestWidget: an item of the test session (a deep copy of an item of the  *)
(* collection): the job of run-all-tests on it, and rerun-test.             *)
(***************************************************************************)
\* The items of a session: copies of Built items, not tested yet.
SessionItems ==
    {[id |-> IntV(0), name |-> "Undeclared", category |-> "Undetermined",
      runcode |-> "echo 5", repetitions |-> r, enabled |-> TRUE,
      result |-> execute(<<>>, r, outs), validationCmd |-> cmd,
      testResult |-> NOTRUN, testOutput |-> <<>>, wasTestRepeated |-> 0] :
        r \in 1..MaxReps, outs \in [1..MaxReps -> RunOutputs], cmd \in ItemRules}

\* TestWidget.runAction('run-all-tests'): the job of the item, args[0].test().
SessionTest ==
    /\ last.op = "init"
    /\ ItemTest

\* TestWidget.runAction('rerun-test') up to self.pex.run(): the item has a
\* box (its verdict has an icon) and no test is running.
RerunTestKeep ==
    /\ last.op # "rerun-test"
    /\ item.testResult # NOTRUN
    /\ item.wasTestRepeated < MaxRepeats
    /\ item' = [item EXCEPT !.wasTestRepeated = @ + 1]
    /\ last' = Last("rerun-test", FALSE, "none")

RerunTest ==
    /\ last.op # "rerun-test"
    /\ item.testResult # NOTRUN
    /\ item.wasTestRepeated < MaxRepeats
    /\ item' = [item EXCEPT !.wasTestRepeated = @ + 1,
                            !.testResult = NOTRUN, !.testOutput = <<>>]
    /\ last' = Last("rerun-test", FALSE, "none")

\* The job of rerun-test: rerunItem.test().
RerunJob ==
    /\ last.op = "rerun-test"
    /\ ItemTest

InitSession ==
    /\ PexIdle
    /\ ValIdle
    /\ item \in SessionItems
    /\ last = Last("init", FALSE, "none")
    /\ ColIdle /\ UiIdle /\ DocIdle

NextSession ==
    \/ SessionTest /\ UNCHANGED <<pexVars, valVars, colVars, uiVars, docVars>>
    \/ RerunTest /\ UNCHANGED <<pexVars, valVars, colVars, uiVars, docVars>>
    \/ RerunJob /\ UNCHANGED <<pexVars, valVars, colVars, uiVars, docVars>>

SpecSession == InitSession /\ [][NextSession]_vars

(***************************************************************************)
(* The batch operations: the queue that run-all-items (BuildWidget) and    *)
(* run-all-tests (TestWidget) hand to ParallelLoopExecution.  An item is   *)
(* named by its place in parent.items.                                     *)
(***************************************************************************)
Categories == {"A", "B"}

\* The texts of the category combo of the build tab.
CategoryFilters == {"All categories", "A"}

Collections == [ItemIds -> [enabled : BOOLEAN, repetitions : {0, 1}, category : Categories]]

\* The members of K below n + 1, in the order of parent.items.
RECURSIVE InOrder(_, _)
InOrder(K, n) ==
    IF n = 0 THEN <<>>
    ELSE InOrder(K, n - 1) \o (IF n \in K THEN <<n>> ELSE <<>>)

filterItemByCategory(it, categoryFilter) ==
    \/ categoryFilter = "All categories"
    \/ it.category = categoryFilter

\* BuildWidget.populateTable: the items that have a box in the scroll layout.
populateTable(col, categoryFilter, showDisabled) ==
    {i \in ItemIds : /\ showDisabled \/ col[i].enabled
                     /\ filterItemByCategory(col[i], categoryFilter)}

\* run-all-items: the boxes whose item is enabled and of the shown category.
BuildQueue(col, categoryFilter, showDisabled) ==
    InOrder({i \in populateTable(col, categoryFilter, showDisabled) :
                /\ isEnabled(col[i])
                /\ filterItemByCategory(col[i], categoryFilter)}, MaxItems)

\* run-all-tests: funcArg, the items of the copy that have their flag set.
TestQueue(col) == InOrder({i \in ItemIds : col[i].enabled}, MaxItems)

\* The state after the handler of a batch action has constructed the
\* execution.  run-all-tests constructs none for an empty queue.
InitBatch ==
    /\ items \in Collections
    /\ action \in LoopActions
    /\ onFinishFunction = PassesOnFinish(action)
    /\ onException = PassesOnException(action)
    /\ queue0 \in IF action = "run-all-items"
                  THEN {BuildQueue(items, f, d) : f \in CategoryFilters, d \in BOOLEAN}
                  ELSE {TestQueue(items)}
    /\ action = "run-all-tests" => queue0 # <<>>
    /\ loopItems = queue0
    /\ exceptionOccurred = FALSE
    /\ started = FALSE
    /\ thread = [i \in ItemIds |-> "idle"]
    /\ mainQueue = <<>>
    /\ log = <<>>
    /\ ValIdle
    /\ ItemIdle
    /\ UiIdle
    /\ DocIdle

SpecBatch == InitBatch /\ [][Next]_vars

(***************************************************************************)
(* The editable collection (parent.items), the undo/redo log                *)
(* (tools/UndoRedo.py) and the handlers that change them: item-add,         *)
(* item-remove and item-duplicate of SetupWidget, the id and name edits,    *)
(* run-item and clear-item of BuildWidget, undo, redo and the change of     *)
(* mode.  Item objects live in a heap: the collection and the entries of    *)
(* the log hold addresses, as the Python lists hold references.             *)
(***************************************************************************)
\* Item(): the fields of a new item (here its id, name, results and test
\* fields), with the id addItem gives it.
NewItem(id) ==
    [live |-> TRUE, id |-> id, name |-> "Undeclared", result |-> <<>>,
     testResult |-> NOTRUN, testOutput |-> <<>>, wasTestRepeated |-> 0]

\* The collection and the log as one value; raised: the exception a handler
\* ended with, ret: the item a method returned.
Doc ==
    [heap |-> heap, items |-> parentItems, undoStack |-> undoStack,
     redoStack |-> redoStack, cmdCalledFromHere |-> cmdCalledFromHere,
     raised |-> "none", ret |-> None]

Raise(c, e) == [c EXCEPT !.raised = e]

\* The ids of the items of the collection.
IdsOf(c) == {c.heap[c.items[k]].id : k \in 1..Len(c.items)}

FreeRefs(c) == {r \in Refs : ~c.heap[r].live}

\* The address a new object gets.
NewRef(c) == CHOOSE r \in FreeRefs(c) : \A q \in FreeRefs(c) : r <= q

\* max(item.id for item in self.parent.items) + 1 if self.parent.items else 0,
\* for ids that are all ints (a str id makes max or the addition raise).
NextId(c) ==
    IF c.items = <<>> THEN IntV(0)
    ELSE IntV(1 + CHOOSE m \in {i.num : i \in IdsOf(c)} :
                      \A i \in IdsOf(c) : i.num <= m)

HasStrId(c) == \E i \in IdsOf(c) : i.t = "str"

\* SetupWidget.addItem(newItem)
addItem(c, newItem) ==
    IF newItem = None
    THEN IF HasStrId(c) THEN Raise(c, "TypeError")
         ELSE [c EXCEPT !.heap[NewRef(c)] = NewItem(NextId(c)),
                        !.items = Append(@, NewRef(c)),
                        !.ret = NewRef(c)]
    ELSE [c EXCEPT !.items = Append(@, newItem), !.ret = newItem]

\* The places of the list whose element is x or equals x (dataclass eq).
PlacesOf(c, x) ==
    {k \in 1..Len(c.items) : c.items[k] = x \/ c.heap[c.items[k]] = c.heap[x]}

\* list.remove(x): the list without the first element that is or equals x.
listRemove(list, k) == SubSeq(list, 1, k - 1) \o SubSeq(list, k + 1, Len(list))

FirstOf(S) == CHOOSE k \in S : \A j \in S : k <= j

\* The texts of the cells of a row of the table: the id (column 0), the name
\* (column 1) and the repetitions (column 3, here always 1).
CellText(c, row, column) ==
    CASE column = 0 -> IdText(c.heap[c.items[row]].id)
      [] column = 1 -> <<"n">>
      [] OTHER -> <<"1">>

\* SetupWidget.removeItem(selectedItem).  Without an item it takes the first
\* selected cell (row 0: nothing is selected), reads an id from its text and
\* looks for the first item with that id.
removeItem(c, selectedItem, row, column) ==
    LET text == CellText(c, row, column)
        found == {k \in 1..Len(c.items) :
                     c.heap[c.items[k]].id = IntV(SignedIntOf(text))}
        x == IF selectedItem # None THEN selectedItem ELSE c.items[FirstOf(found)]
    IN  IF selectedItem = None /\ row = 0 THEN c
        ELSE IF selectedItem = None /\ ~SignedIntParses(text) THEN Raise(c, "ValueError")
        ELSE IF selectedItem = None /\ found = {} THEN Raise(c, "AttributeError")
        ELSE IF PlacesOf(c, x) = {} THEN Raise(c, "ValueError")
        ELSE [c EXCEPT !.items = listRemove(@, FirstOf(PlacesOf(c, x))), !.ret = x]

\* SetupWidget.duplicateItem(): a deep copy of the item of the selected row,
\* with a new id, is added.
duplicateItem(c, row) ==
    IF row = 0 THEN c
    ELSE IF HasStrId(c) THEN Raise(c, "TypeError")
    ELSE addItem([c EXCEPT !.heap[NewRef(c)] =
                               [c.heap[c.items[row]] EXCEPT !.id = NextId(c)]],
                 NewRef(c))

Entry(action_, it) == [action |-> action_, item |-> it]

\* UndoRedo.addAction(buffer, arg)
addAction(c, buffer, arg) ==
    IF buffer = "undo"
    THEN [c EXCEPT !.undoStack = Append(@, arg),
                   !.redoStack = IF c.cmdCalledFromHere THEN @ ELSE <<>>]
    ELSE [c EXCEPT !.redoStack = Append(@, arg)]

\* runAction(action, actionStack, *args) of the current widget, for the
\* actions of the log: SetupWidget carries them out, BuildWidget knows none
\* of them.  actionStack is "undo", "redo" or "None".
runAction(c, widget, action_, actionStack, arg, row, column) ==
    LET c1 == CASE action_ = "item-add" -> addItem(c, arg)
                [] action_ = "item-remove" -> removeItem(c, arg, row, column)
                [] OTHER -> duplicateItem(c, row)
    IN  IF widget # "setup" THEN c
        ELSE IF c1.raised # "none" THEN c1
        ELSE IF action_ = "item-duplicate" /\ c1.ret = None THEN c1
        ELSE IF actionStack = "None" THEN c1
        ELSE addAction(c1, actionStack,
                       Entry(IF action_ = "item-remove" THEN "item-add" ELSE "item-remove",
                             c1.ret))

Pop(stack) == SubSeq(stack, 1, Len(stack) - 1)

Top(stack) == stack[Len(stack)]

\* The replay of a popped entry: the mark is set, the current widget runs the
\* action, the mark is cleared (not when the action raised).
replay(c, widget, entry, buffer) ==
    LET c1 == runAction([c EXCEPT !.cmdCalledFromHere = TRUE], widget,
                        entry.action, buffer, entry.item, 0, 0)
    IN  IF c1.raised # "none" THEN c1 ELSE [c1 EXCEPT !.cmdCalledFromHere = FALSE]

\* undo() that pops whatever the stack holds.
undoUnchecked(c, widget) ==
    IF c.undoStack = <<>> THEN Raise([c EXCEPT !.cmdCalledFromHere = TRUE], "IndexError")
    ELSE replay([c EXCEPT !.undoStack = Pop(@)], widget, Top(c.undoStack), "redo")

\* UndoRedo.undo()
undo(c, widget) ==
    IF c.undoStack = <<>> THEN c
    ELSE replay([c EXCEPT !.undoStack = Pop(@)], widget, Top(c.undoStack), "redo")

\* UndoRedo.redo()
redo(c, widget) ==
    IF c.redoStack = <<>> THEN c
    ELSE replay([c EXCEPT !.redoStack = Pop(@)], widget, Top(c.redoStack), "undo")

\* The handler leaves the collection and the log as c; the history keeps
\* the exception it ended with, the current widget and the state it started
\* from; for undo and redo also the handler before it (prevOp) and the state
\* that one started from (prior).
Commit(op, c) ==
    /\ heap' = c.heap
    /\ parentItems' = c.items
    /\ undoStack' = c.undoStack
    /\ redoStack' = c.redoStack
    /\ cmdCalledFromHere' = c.cmdCalledFromHere
    /\ done' = [op |-> op, raised |-> c.raised, widget |-> currentWidget, before |-> Doc,
                prevOp |-> IF op \in {"undo", "redo"} THEN done.op ELSE "-",
                prior |-> IF op \in {"undo", "redo"} /\ done.op # "init"
                          THEN done.before ELSE Doc]

Entries == Len(undoStack) + Len(redoStack)

\* The user adds an item (the add button or the Edit menu).
DocAdd ==
    /\ Entries < MaxStack
    /\ FreeRefs(Doc) # {}
    /\ Commit("item-add", runAction(Doc, currentWidget, "item-add", "undo", None, 0, 0))
    /\ UNCHANGED <<currentTest, currentWidget, saveVars>>

\* The user removes an item; a cell of a row is selected, or none.
DocRemove ==
    /\ Entries < MaxStack
    /\ \E row \in 0..Len(parentItems) :
          \E column \in IF row = 0 THEN {0} ELSE {0, 1, 3} :
              Commit("item-remove",
                     runAction(Doc, currentWidget, "item-remove", "undo", None, row, column))
    /\ UNCHANGED <<currentTest, currentWidget, saveVars>>

\* The user duplicates the item of the selected row.
DocDuplicate ==
    /\ Entries < MaxStack
    /\ FreeRefs(Doc) # {}
    /\ \E row \in 0..Len(parentItems) :
          Commit("item-duplicate",
                 runAction(Doc, currentWidget, "item-duplicate", "undo", None, row, 0))
    /\ UNCHANGED <<currentTest, currentWidget, saveVars>>

\* The replay of an item-add entry without an item makes a new object.
CanReplay(stack) ==
    stack # <<>> /\ Top(stack) = Entry("item-add", None) => FreeRefs(Doc) # {}

\* Edit > Undo
DocUndo ==
    /\ CanReplay(undoStack)
    /\ Commit("undo", undo(Doc, currentWidget))
    /\ UNCHANGED <<currentTest, currentWidget, saveVars>>

\* Edit > Redo
DocRedo ==
    /\ CanReplay(redoStack)
    /\ Commit("redo", redo(Doc, currentWidget))
    /\ UNCHANGED <<currentTest, currentWidget, saveVars>>

\* The ids the user types.
DocIdTexts == {<<"0">>, <<"1">>}

\* The user edits the id of a row of the setup table: through the cell
\* (updateDetailsFromTable stores an int) or through the details field
\* (updateTableFromDetails stores the text).
DocEditId ==
    /\ currentWidget = "setup"
    /\ \E row \in 1..Len(parentItems) : \E text \in DocIdTexts : \E details \in BOOLEAN :
          LET it == heap[parentItems[row]]
              ok == checkIDOkAmong(text, IdsOf(Doc)) = 0
              id == IF details THEN StrV(text) ELSE IntV(SignedIntOf(text))
          IN  Commit("edit-id",
                     IF ok /\ (details => text # IdText(it.id))
                     THEN [Doc EXCEPT !.heap[parentItems[row]].id = id]
                     ELSE Doc)
    /\ UNCHANGED <<currentTest, currentWidget, saveVars>>

\* The user edits the name of a row.
DocEditName ==
    /\ currentWidget = "setup"
    /\ \E row \in 1..Len(parentItems) :
          Commit("edit-name", [Doc EXCEPT !.heap[parentItems[row]].name = "other"])
    /\ UNCHANGED <<currentTest, currentWidget, saveVars>>

\* The run button of the box of an item in the build tab: runAction('run-item',
\* None, box), for an enabled item of one repetition whose command succeeds.
DocRunItem ==
    /\ currentWidget = "build"
    /\ \E row \in 1..Len(parentItems) :
          Commit("run-item",
                 [Doc EXCEPT !.heap[parentItems[row]].result =
                                 IF @ = <<>> THEN <<"5">> ELSE @])
    /\ UNCHANGED <<currentTest, currentWidget, saveVars>>

\* The clear button of the box: runAction('clear-item', None, box).
DocClearItem ==
    /\ currentWidget = "build"
    /\ \E row \in 1..Len(parentItems) :
          Commit("clear-item", [Doc EXCEPT !.heap[parentItems[row]].result = <<>>])
    /\ UNCHANGED <<currentTest, currentWidget, saveVars>>

\* Item.__lt__ on the ids: ints by value, texts as str compares them.
IdLess(a, b) == IF a.t = "int" THEN a.num < b.num ELSE StrLess(a.s, b.s)

\* The orders of the list that list.sort() can leave: the stable sort by id,
\* or, when a str id meets an int id (TypeError), any order.
Sorted(c) ==
    {p \in [1..Len(c.items) -> 1..Len(c.items)] :
        /\ \A j, k \in 1..Len(c.items) : j # k => p[j] # p[k]
        /\ (\A i \in IdsOf(c) : i.t = "int") \/ (\A i \in IdsOf(c) : i.t = "str") =>
              \A j, k \in 1..Len(c.items) :
                 j < k => /\ ~IdLess(c.heap[c.items[p[k]]].id, c.heap[c.items[p[j]]].id)
                          /\ c.heap[c.items[p[k]]].id = c.heap[c.items[p[j]]].id
                                => p[j] < p[k]}

\* GUI.changeMode: the other tab becomes the current widget; the build tab
\* populates its table, which sorts parent.items.
ChangeMode ==
    /\ currentWidget' = IF currentWidget = "setup" THEN "build" ELSE "setup"
    /\ IF currentWidget = "setup"
       THEN \E p \in Sorted(Doc) :
               Commit("mode", [Doc EXCEPT !.items = [k \in 1..Len(parentItems) |->
                                                       parentItems[p[k]]]])
       ELSE Commit("mode", Doc)
    /\ UNCHANGED <<currentTest, saveVars>>

\* SpecUndo: the collection and the log, from an empty project, under the
\* edits of the setup tab, undo and redo.
InitUndo == PexIdle /\ ValIdle /\ ItemIdle /\ ColIdle /\ UiIdle /\ DocIdle

NextUndo ==
    \/ DocAdd /\ UNCHANGED <<pexVars, valVars, itemVars, colVars, uiVars>>
    \/ DocRemove /\ UNCHANGED <<pexVars, valVars, itemVars, colVars, uiVars>>
    \/ DocDuplicate /\ UNCHANGED <<pexVars, valVars, itemVars, colVars, uiVars>>
    \/ DocUndo /\ UNCHANGED <<pexVars, valVars, itemVars, colVars, uiVars>>
    \/ DocRedo /\ UNCHANGED <<pexVars, valVars, itemVars, colVars, uiVars>>
    \/ DocEditId /\ UNCHANGED <<pexVars, valVars, itemVars, colVars, uiVars>>

SpecUndo == InitUndo /\ [][NextUndo]_vars

\* SpecTabs: items are added, renamed and removed in the setup tab, the user
\* changes between the setup and the build tab, and the log is replayed.
NextTabs ==
    \/ DocAdd /\ UNCHANGED <<pexVars, valVars, itemVars, colVars, uiVars>>
    \/ DocRemove /\ UNCHANGED <<pexVars, valVars, itemVars, colVars, uiVars>>
    \/ DocEditName /\ UNCHANGED <<pexVars, valVars, itemVars, colVars, uiVars>>
    \/ DocUndo /\ UNCHANGED <<pexVars, valVars, itemVars, colVars, uiVars>>
    \/ DocRedo /\ UNCHANGED <<pexVars, valVars, itemVars, colVars, uiVars>>
    \/ ChangeMode /\ UNCHANGED <<pexVars, valVars, itemVars, colVars, uiVars>>

SpecTabs == InitUndo /\ [][NextTabs]_vars

\* SpecBuildLog: the items are added in the setup tab, run and cleared in the
\* build tab, and the log is replayed.
NextBuildLog ==
    \/ DocAdd /\ UNCHANGED <<pexVars, valVars, itemVars, colVars, uiVars>>
    \/ DocRunItem /\ UNCHANGED <<pexVars, valVars, itemVars, colVars, uiVars>>
    \/ DocClearItem /\ UNCHANGED <<pexVars, valVars, itemVars, colVars, uiVars>>
    \/ DocUndo /\ UNCHANGED <<pexVars, valVars, itemVars, colVars, uiVars>>
    \/ DocRedo /\ UNCHANGED <<pexVars, valVars, itemVars, colVars, uiVars>>
    \/ ChangeMode /\ UNCHANGED <<pexVars, valVars, itemVars, colVars, uiVars>>

SpecBuildLog == InitUndo /\ [][NextBuildLog]_vars

(***************************************************************************)
(* TestWidget: the test session, self.currentTest, next to the collection. *)
(* The Item objects of the session live at the addresses above MaxObjs;    *)
(* the items have one repetition and the rule 'same'.  The tab on show is  *)
(* not followed here: the user changes between the tabs (GUI.changeMode)   *)
(* and the session stays.                                                  *)
(***************************************************************************)
\* The addresses of the collection's Items and of their copies.
CopyRefs == 1..(2 * MaxObjs)

\* A copy of the list only: the session would hold the collection's Items.
copyShallow(c) ==
    [heap |-> [r \in DOMAIN c.heap |-> IF r <= MaxObjs THEN c.heap[r] ELSE Free],
     list |-> c.items]

\* copy.deepcopy(self.parent.items): a new Item for each Item of the list,
\* the same fields, and a new list of them.
deepcopy(c) ==
    [heap |-> [r \in DOMAIN c.heap |->
                 IF r <= MaxObjs THEN c.heap[r]
                 ELSE IF \E k \in 1..Len(c.items) : c.items[k] = r - MaxObjs
                      THEN c.heap[r - MaxObjs] ELSE Free],
     list |-> [k \in 1..Len(c.items) |-> c.items[k] + MaxObjs]]

\* TestWidget.runAction('run-all-tests') up to self.pex.run(): the results
\* of the last session are cleared, the collection is copied.
RunAllTests ==
    /\ LET copy == deepcopy(Doc)
       IN  /\ Commit("run-all-tests", [Doc EXCEPT !.heap = copy.heap])
           /\ currentTest' = copy.list
    /\ UNCHANGED <<currentWidget, saveVars>>

\* What the command of an item prints when it is tested.
SessionOutputs == {"5", "a"}

\* The job of run-all-tests or of rerun-test on an item of the session,
\* Item.test(): nothing without results or when tested already.
SessionTestJob ==
    /\ \E k \in 1..Len(currentTest) : \E out \in SessionOutputs :
          LET it == heap[currentTest[k]]
          IN  Commit("test",
                     IF it.result = <<>> \/ it.testOutput # <<>> THEN Doc
                     ELSE [Doc EXCEPT !.heap[currentTest[k]] =
                              [it EXCEPT !.testOutput = <<out>>,
                                         !.testResult = IF <<out>> = it.result
                                                        THEN OK ELSE ERROR]])
    /\ UNCHANGED <<currentTest, currentWidget, saveVars>>

\* TestWidget.runAction('rerun-test') up to self.pex.run(), from the button
\* of the box of a tested item.
SessionRerun ==
    /\ \E k \in 1..Len(currentTest) :
          /\ heap[currentTest[k]].testResult # NOTRUN
          /\ heap[currentTest[k]].wasTestRepeated < MaxRepeats
          /\ Commit("rerun-test",
                    [Doc EXCEPT !.heap[currentTest[k]] =
                        [@ EXCEPT !.wasTestRepeated = @ + 1,
                                  !.testResult = NOTRUN, !.testOutput = <<>>]])
    /\ UNCHANGED <<currentTest, currentWidget, saveVars>>

\* TestWidget.runAction('clear-all-tests'): self.currentTest.clear().
ClearAllTests ==
    /\ currentTest # <<>>
    /\ Commit("clear-all-tests",
              [Doc EXCEPT !.heap = [r \in DOMAIN heap |->
                                      IF \E k \in 1..Len(currentTest) :
                                            currentTest[k] = r /\ r > MaxObjs
                                      THEN Free ELSE heap[r]]])
    /\ currentTest' = <<>>
    /\ UNCHANGED <<currentWidget, saveVars>>

\* A project read from its file (DataFields.loadItemsFromFile): items that
\* were run in the build tab, no session yet.
InitCopy ==
    /\ PexIdle /\ ValIdle /\ ItemIdle /\ ColIdle /\ UiIdle
    /\ \E n \in 1..MaxObjs :
          /\ parentItems = [k \in 1..n |-> k]
          /\ heap = [r \in CopyRefs |->
                       IF r <= n THEN [NewItem(IntV(r - 1)) EXCEPT !.result = <<"5">>]
                       ELSE Free]
    /\ currentTest = <<>>
    /\ undoStack = <<>> /\ redoStack = <<>>
    /\ cmdCalledFromHere = FALSE
    /\ currentWidget = "setup"
    /\ file = NoFile
    /\ projectDataFields = TestDataFields("", "", "")
    /\ done = [op |-> "init"]

NextCopy ==
    \/ RunAllTests /\ UNCHANGED <<pexVars, valVars, itemVars, colVars, uiVars>>
    \/ SessionTestJob /\ UNCHANGED <<pexVars, valVars, itemVars, colVars, uiVars>>
    \/ SessionRerun /\ UNCHANGED <<pexVars, valVars, itemVars, colVars, uiVars>>
    \/ ClearAllTests /\ UNCHANGED <<pexVars, valVars, itemVars, colVars, uiVars>>
    \/ DocAdd /\ UNCHANGED <<pexVars, valVars, itemVars, colVars, uiVars>>
    \/ DocEditName /\ UNCHANGED <<pexVars, valVars, itemVars, colVars, uiVars>>

SpecCopy == InitCopy /\ [][NextCopy]_vars

(***************************************************************************)
(* DataFields: the project file.  saveItemsToFile writes the metadata and  *)
(* the items, areItemsSaved reads the file again and compares.  The items  *)
(* have one repetition; file.written keeps what the file was written from. *)
(***************************************************************************)
\* The items of the collection, parent.items, by value.
Memory == [k \in 1..Len(parentItems) |-> heap[parentItems[k]]]

\* asdict(item) without 'testResult' and 'testOutput', as json writes it.
itemDict(it) ==
    [id |-> it.id, name |-> it.name, result |-> it.result,
     wasTestRepeated |-> it.wasTestRepeated]

\* Item(**filteredDict) of a dict of the file: the fields the file does not
\* hold take their defaults.
appendItem(d) ==
    [live |-> TRUE, id |-> d.id, name |-> d.name, result |-> d.result,
     testResult |-> NOTRUN, testOutput |-> <<>>, wasTestRepeated |-> d.wasTestRepeated]

\* list.__eq__ on two lists of ResultCommand.
ResultsEq(a, b) ==
    /\ Len(a) = Len(b)
    /\ \A k \in 1..Len(a) : ResultEq(a[k], b[k])

\* Item.__eq__ as the dataclass generates it: every field.
ItemEq(a, b) ==
    /\ a.id = b.id
    /\ a.name = b.name
    /\ ResultsEq(a.result, b.result)
    /\ a.testResult = b.testResult
    /\ ResultsEq(a.testOutput, b.testOutput)
    /\ a.wasTestRepeated = b.wasTestRepeated

\* A comparison of the metadata on every field.
TestDataFieldsEqAll(a, b) == a = b

\* TestDataFields.__eq__: date and testCount are declared with compare=False.
TestDataFieldsEq(a, b) ==
    /\ a.name = b.name
    /\ a.project = b.project
    /\ a.author = b.author
    /\ a.conductor = b.conductor

\* areItemsSaved(testDataFields, items, filename) on the file f: "True",
\* "False", or the exception of items[index].
areItemsSaved(testDataFields, list, f) ==
    IF ~TestDataFieldsEq(testDataFields, f.fields) THEN "False"
    ELSE LET stops == {index \in 1..Len(f.items) :
                          \/ index > Len(list)
                          \/ ~ItemEq(appendItem(f.items[index]), list[index])}
         IN  IF stops = {} THEN "True"
             ELSE IF FirstOf(stops) > Len(list) THEN "IndexError" ELSE "False"

\* History of a handler of the project file: what it raised and returned.
Handled(op, raised, ret) == [op |-> op, raised |-> raised, ret |-> ret]

\* GUI.saveFile: DataFields.saveItemsToFile(projectDataFields, items, file).
SaveFile ==
    /\ file' = [saved |-> TRUE, fields |-> projectDataFields,
                items |-> [k \in 1..Len(parentItems) |-> itemDict(Memory[k])],
                written |-> [fields |-> projectDataFields, items |-> Memory]]
    /\ done' = Handled("save", "none", "-")
    /\ UNCHANGED <<heap, parentItems, undoStack, redoStack, cmdCalledFromHere>>
    /\ UNCHANGED <<currentTest, currentWidget, projectDataFields>>

\* GUI.unsavedChanges on a project that has its file: areItemsSaved.
IsSaved ==
    /\ file.saved
    /\ LET ret == areItemsSaved(projectDataFields, Memory, file)
       IN  done' = IF ret = "IndexError" THEN Handled("isSaved", ret, "-")
                   ELSE Handled("isSaved", "none", ret)
    /\ UNCHANGED <<heap, parentItems, undoStack, redoStack, cmdCalledFromHere>>
    /\ UNCHANGED <<currentTest, currentWidget, saveVars>>

\* The build tab: the results of an item are cleared and its command is
\* executed again.
SaveRunItem ==
    /\ \E row \in 1..Len(parentItems) : \E out \in RunOutputs : \E t \in Durations :
          heap' = [heap EXCEPT ![parentItems[row]].result =
                      <<ResultCommand(out.output, out.returnCode, t, <<t>>, NOTRUN)>>]
    /\ done' = Handled("run-item", "none", "-")
    /\ UNCHANGED <<parentItems, undoStack, redoStack, cmdCalledFromHere>>
    /\ UNCHANGED <<currentTest, currentWidget, saveVars>>

\* ProjectSettingsWindow.applyChanges: the name of the project.
ApplyChanges ==
    /\ \E name \in {"", "P"} :
          projectDataFields' = [projectDataFields EXCEPT !.name = name]
    /\ done' = Handled("settings", "none", "-")
    /\ UNCHANGED <<heap, parentItems, undoStack, redoStack, cmdCalledFromHere>>
    /\ UNCHANGED <<currentTest, currentWidget, file>>

\* run-all-tests stamps the metadata with the date and the count of tests.
StampTest ==
    /\ projectDataFields' = [projectDataFields EXCEPT !.date = "now", !.testCount = "1"]
    /\ done' = Handled("run-all-tests", "none", "-")
    /\ UNCHANGED <<heap, parentItems, undoStack, redoStack, cmdCalledFromHere>>
    /\ UNCHANGED <<currentTest, currentWidget, file>>

InitSave == InitUndo

NextSave ==
    \/ SaveFile /\ UNCHANGED <<pexVars, valVars, itemVars, colVars, uiVars>>
    \/ IsSaved /\ UNCHANGED <<pexVars, valVars, itemVars, colVars, uiVars>>
    \/ SaveRunItem /\ UNCHANGED <<pexVars, valVars, itemVars, colVars, uiVars>>
    \/ ApplyChanges /\ UNCHANGED <<pexVars, valVars, itemVars, colVars, uiVars>>
    \/ StampTest /\ UNCHANGED <<pexVars, valVars, itemVars, colVars, uiVars>>
    \/ DocAdd /\ UNCHANGED <<pexVars, valVars, itemVars, colVars, uiVars>>
    \/ DocRemove /\ UNCHANGED <<pexVars, valVars, itemVars, colVars, uiVars>>

SpecSave == InitSave /\ [][NextSave]_vars

(***************************************************************************)
(* Item._execute: the processes of the repetitions, one after the other.   *)
(***************************************************************************)
\* What the process of a repetition leaves: what it printed, its exit code
\* and what it wrote to its error stream.
Processes ==
    {[stdout |-> <<"5">>, returncode |-> rc, stderr |-> e] :
        rc \in {0, 1}, e \in {<<>>, <<"e">>}}

\* A loop that goes on after a repetition that wrote to its error stream.
RECURSIVE executeLoopOn(_, _, _, _)
executeLoopOn(list, procs, k, repetitions) ==
    IF k > repetitions
    THEN [list |-> list, raised |-> "none", spawned |-> k - 1]
    ELSE executeLoopOn(IF procs[k].stderr # <<>> THEN list
                       ELSE Append(list, ResultCommand(procs[k].stdout, procs[k].returncode,
                                                       1, <<k>>, NOTRUN)),
                       procs, k + 1, repetitions)

\* The loop of _execute(resultOutputSave) from repetition k: subprocess.run,
\* raise CalledProcessError if runResult.stderr, else append the result.
\* spawned counts the processes started.
RECURSIVE executeLoop(_, _, _, _)
executeLoop(list, procs, k, repetitions) ==
    IF k > repetitions
    THEN [list |-> list, raised |-> "none", spawned |-> k - 1]
    ELSE IF procs[k].stderr # <<>>
    THEN [list |-> list, raised |-> "CalledProcessError", spawned |-> k]
    ELSE executeLoop(Append(list, ResultCommand(procs[k].stdout, procs[k].returncode,
                                                1, <<k>>, NOTRUN)),
                     procs, k + 1, repetitions)

\* Item.run() on an item without results: self._execute(self.result).  The
\* history keeps the processes and how many of them were started.
ExecuteRun ==
    /\ last.op = "init"
    /\ LET r == IF hasBeenRun(item)
                THEN [list |-> item.result, raised |-> "none", spawned |-> 0]
                ELSE executeLoop(item.result, last.procs, 1, item.repetitions)
       IN  /\ item' = [item EXCEPT !.result = r.list]
           /\ last' = [op |-> "run", acted |-> ~hasBeenRun(item), raised |-> r.raised,
                       procs |-> last.procs, spawned |-> r.spawned]

InitExecute ==
    /\ PexIdle /\ ValIdle /\ ColIdle /\ UiIdle /\ DocIdle
    /\ item \in [id : {IntV(0)}, name : {"Undeclared"}, category : {"Undetermined"},
                 runcode : {"echo 5"},
                 repetitions : 0..MaxReps, enabled : {TRUE}, result : {<<>>},
                 validationCmd : {ValidationCommand(SAME, "==", <<>>)},
                 testResult : {NOTRUN}, testOutput : {<<>>}, wasTestRepeated : {0}]
    /\ last \in [op : {"init"}, procs : [1..MaxReps -> Processes]]

NextExecute == ExecuteRun /\ UNCHANGED <<pexVars, valVars, colVars, uiVars, docVars>>

SpecExecute == InitExecute /\ [][NextExecute]_vars

(***************************************************************************)
(* DataFields and the file on disk: loadItemsFromFile, areItemsSaved on a  *)
(* file that cannot be read, saveItemsToFile with the faults of the file   *)
(* system.  The project holds one item, item; file.text tells what the     *)
(* file holds: "json" (the envelope [fields, items]), "other" (JSON that   *)
(* is not an envelope), "garbled" (no JSON), "empty" or "partial" (what a  *)
(* write that failed leaves).                                              *)
(***************************************************************************)
\* Item(): the defaults of the fields of the dataclass.
ItemDefaults ==
    [id |-> IntV(0 - 1), name |-> "Undeclared", category |-> "Undetermined",
     repetitions |-> 1, enabled |-> TRUE, runcode |-> "", result |-> <<>>,
     validationCmd |-> ValidationCommand(SAME, "==", <<>>),
     testResult |-> NOTRUN, testOutput |-> <<>>, wasTestRepeated |-> 0]

\* {field.name for field in fields(Item)}
itemFields == DOMAIN ItemDefaults

\* {k: v for k, v in itemDict.items() if k in itemFields}
filteredDict(d, names) == [k \in (DOMAIN d) \cap names |-> d[k]]

\* Item(**filteredDict), TestDataFields(**filteredDict): the fields that
\* are not given take their defaults.
FromDict(d, defaults) == [k \in DOMAIN defaults |-> IF k \in DOMAIN d THEN d[k] ELSE defaults[k]]

\* The dicts of an item a file can hold: an item of FileItems with as many
\* test results as results or none, some of its keys missing, a key that
\* Item does not know added.
FileDicts ==
    {[k \in ((DOMAIN it) \ dropped) \cup extra |->
         IF k = "colour" THEN "red"
         ELSE IF k = "testOutput" /\ tested THEN it.result
         ELSE it[k]] :
        it \in FileItems, tested \in BOOLEAN,
        dropped \in SUBSET {"repetitions", "result", "name"}, extra \in SUBSET {"colour"}}

\* The dicts of the metadata a file can hold.
FileFields ==
    {[name |-> "P", project |-> "", date |-> "", testCount |-> "", author |-> "",
      conductor |-> ""],
     [project |-> "", date |-> "", conductor |-> "", version |-> "1"]}

\* What a file can hold.
Files ==
    {[saved |-> FALSE, text |-> "empty", fields |-> <<>>, items |-> <<>>, written |-> <<>>]}
    \cup {[saved |-> TRUE, text |-> t, fields |-> <<>>, items |-> <<>>, written |-> <<>>] :
             t \in {"garbled", "other"}}
    \cup {[saved |-> TRUE, text |-> "json", fields |-> f, items |-> <<d>>, written |-> <<>>] :
             f \in FileFields, d \in FileDicts}

\* open(filename, 'r') and json.load(file), jsonList[0].items(), jsonList[1]:
\* the exception a file that is not an envelope gives.
readError(f) ==
    IF ~f.saved THEN "FileNotFoundError"
    ELSE IF f.text \in {"garbled", "empty", "partial"} THEN "JSONDecodeError"
    ELSE IF f.text = "other" THEN "AttributeError"
    ELSE "none"

\* loadItemsFromFile(filename): (testFields, items).
loadItemsFromFile(f) ==
    [testFields |-> FromDict(filteredDict(f.fields, DOMAIN TestDataFields("", "", "")),
                             TestDataFields("", "", "")),
     items |-> [i \in 1..Len(f.items) |->
                  loadItem(FromDict(filteredDict(f.items[i], itemFields), ItemDefaults))]]

\* GUI.openFile: the project becomes what loadItemsFromFile returns; an
\* exception is shown and the project stays.
OpenFile ==
    /\ IF readError(file) # "none"
       THEN /\ last' = Last("load", FALSE, readError(file))
            /\ UNCHANGED <<item, projectDataFields>>
       ELSE /\ item' = loadItemsFromFile(file).items[1]
            /\ projectDataFields' = loadItemsFromFile(file).testFields
            /\ last' = Last("load", TRUE, "none")
    /\ done' = [op |-> "load"]
    /\ UNCHANGED file

\* areItemsSaved(testDataFields, items, filename) on a file that cannot be
\* read.
IsSavedUnreadable ==
    /\ readError(file) # "none"
    /\ done' = Handled("isSaved", readError(file), "-")
    /\ UNCHANGED <<item, last, file, projectDataFields>>

\* The faults of the file system during a save: none, open() refuses the
\* file, a write fails before or after the first characters.
Faults == {"none", "open", "write-first", "write-later"}

\* saveItemsToFile(testDataFields, items, filename): open(filename, 'w')
\* empties the file, json.dump writes the text piece by piece.
saveItemsToFile(testDataFields, list, f, fault) ==
    CASE fault = "open" -> f
      [] fault = "write-first" -> [f EXCEPT !.saved = TRUE, !.text = "empty"]
      [] fault = "write-later" -> [f EXCEPT !.saved = TRUE, !.text = "partial"]
      [] OTHER -> [saved |-> TRUE, text |-> "json", fields |-> testDataFields,
                   items |-> [i \in 1..Len(list) |->
                                filteredDict(list[i], itemFields \ {"testResult", "testOutput"})],
                   written |-> <<>>]

\* GUI.saveFile: saveItemsToFile; an exception is shown.
SaveToFile ==
    /\ \E fault \in Faults :
          /\ file' = saveItemsToFile(projectDataFields, <<item>>, file, fault)
          /\ done' = [op |-> "save",
                      raised |-> CASE fault = "none" -> "none"
                                   [] fault = "open" -> "PermissionError"
                                   [] OTHER -> "OSError",
                      before |-> file]
    /\ UNCHANGED <<item, last, projectDataFields>>

InitFile ==
    /\ PexIdle /\ ValIdle /\ ItemIdle /\ ColIdle /\ UiIdle
    /\ heap = [r \in Refs |-> Free]
    /\ parentItems = <<>>
    /\ currentTest = <<>>
    /\ undoStack = <<>> /\ redoStack = <<>>
    /\ cmdCalledFromHere = FALSE
    /\ currentWidget = "setup"
    /\ file \in Files
    /\ projectDataFields = TestDataFields("", "", "")
    /\ done = [op |-> "init"]

NextFile ==
    \/ /\ OpenFile
       /\ UNCHANGED <<pexVars, valVars, colVars, uiVars>>
       /\ UNCHANGED <<heap, parentItems, currentTest, undoStack, redoStack,
                      cmdCalledFromHere, currentWidget>>
    \/ /\ IsSavedUnreadable
       /\ UNCHANGED <<pexVars, valVars, colVars, uiVars>>
       /\ UNCHANGED <<heap, parentItems, currentTest, undoStack, redoStack,
                      cmdCalledFromHere, currentWidget>>
    \/ /\ SaveToFile
       /\ UNCHANGED <<pexVars, valVars, colVars, uiVars>>
       /\ UNCHANGED <<heap, parentItems, currentTest, undoStack, redoStack,
                      cmdCalledFromHere, currentWidget>>

SpecFile == InitFile /\ [][NextFile]_vars

(***************************************************************************)
(* The widgets while background executions are in flight: BuildWidget and  *)
(* TestWidget runAction, GUI.setEnableToolbars, the buttons of the boxes   *)
(* and the Edit menu.  An execution is abstracted to the action that       *)
(* started it and the number of items it has left; a job returns or        *)
(* raises.                                                                 *)
(***************************************************************************)
\* The executions the model keeps in flight at once.
MaxJobs == 2

TestActions == {"run-all-tests", "rerun-test"}

Job(a, n) == [action |-> a, left |-> n]

Asked(op, acted) == [op |-> op, busy |-> jobs # <<>>, acted |-> acted]

Without(j) == [k \in 1..(Len(jobs) - 1) |-> IF k < j THEN jobs[k] ELSE jobs[k + 1]]

\* setEnabled(False) of a widget's topBar and of the tool bars.
Disable(w) ==
    /\ toolbars' = FALSE
    /\ topBar' = [topBar EXCEPT ![w] = FALSE]

\* onFinishRun of a widget: the topBar and the tool bars are enabled;
\* TestWidget's also clears currentlyRunningTest.
onFinishRun(w) ==
    /\ toolbars' = TRUE
    /\ topBar' = [topBar EXCEPT ![w] = TRUE]
    /\ currentlyRunningTest' = IF w = "test" THEN FALSE ELSE currentlyRunningTest

\* The run button of a box of the build widget: runAction('run-item').
\* The button is never disabled; the execution before it is not stopped.
UiRunItem ==
    /\ currentWidget = "build"
    /\ Len(jobs) < MaxJobs
    /\ \E runnable \in BOOLEAN :
          /\ uiDone' = Asked("run-item", runnable)
          /\ IF runnable
             THEN /\ Disable("build")
                  /\ jobs' = Append(jobs, Job("run-item", 1))
             ELSE UNCHANGED <<toolbars, topBar, jobs>>
    /\ UNCHANGED currentlyRunningTest

\* The run-all button of the topBar of the build widget:
\* runAction('run-all-items') over n boxes; with no box onLoopFinished is
\* called at once.
UiRunAllItems ==
    /\ currentWidget = "build"
    /\ topBar.build
    /\ Len(jobs) < MaxJobs
    /\ \E n \in 0..MaxItems :
          IF n = 0
          THEN onFinishRun("build") /\ UNCHANGED jobs
          ELSE /\ Disable("build")
               /\ jobs' = Append(jobs, Job("run-all-items", n))
               /\ UNCHANGED currentlyRunningTest
    /\ uiDone' = Asked("run-all-items", TRUE)

\* The clear button of a box of the build widget: runAction('clear-item').
\* The button is never disabled.
UiClearItem ==
    /\ currentWidget = "build"
    /\ \E enabled \in BOOLEAN : uiDone' = Asked("clear-item", enabled)
    /\ UNCHANGED <<toolbars, topBar, currentlyRunningTest, jobs>>

\* The actions of the Edit menu: currentWidget.runAction(op, 'undo'), undo
\* and redo replay an entry when there is one.  BuildWidget.runAction has
\* no branch for the actions of the collection; TestWidget.runAction sets
\* currentlyRunningTest and has no branch that clears it.
MenuOps == {"item-add", "item-remove", "item-duplicate", "undo", "redo"}

UiEditMenu ==
    /\ toolbars
    /\ currentWidget \in {"build", "test"}
    /\ \E op \in MenuOps, entry \in BOOLEAN :
          /\ op \in {"undo", "redo"} \/ entry
          /\ uiDone' = Asked(op, entry /\ op \in {"undo", "redo"} /\ currentWidget = "build")
          /\ currentlyRunningTest' =
                IF currentWidget = "test" /\ entry THEN TRUE ELSE currentlyRunningTest
    /\ UNCHANGED <<toolbars, topBar, jobs>>

\* The run-all button of the topBar of the test widget:
\* runAction('run-all-tests') over n enabled items.
UiRunAllTests ==
    /\ currentWidget = "test"
    /\ topBar.test
    /\ Len(jobs) < MaxJobs
    /\ IF currentlyRunningTest
       THEN /\ uiDone' = Asked("run-all-tests", FALSE)
            /\ UNCHANGED <<toolbars, topBar, currentlyRunningTest, jobs>>
       ELSE \E n \in 0..MaxItems :
              /\ uiDone' = Asked("run-all-tests", n > 0)
              /\ IF n = 0
                 THEN /\ currentlyRunningTest' = FALSE
                      /\ UNCHANGED <<toolbars, topBar, jobs>>
                 ELSE /\ currentlyRunningTest' = TRUE
                      /\ Disable("test")
                      /\ jobs' = Append(jobs, Job("run-all-tests", n))

\* The clear-all button of the topBar of the test widget:
\* runAction('clear-all-tests').
UiClearAllTests ==
    /\ currentWidget = "test"
    /\ topBar.test
    /\ uiDone' = Asked("clear-all-tests", ~currentlyRunningTest)
    /\ currentlyRunningTest' = IF currentlyRunningTest THEN TRUE ELSE FALSE
    /\ UNCHANGED <<toolbars, topBar, jobs>>

\* The rerun button of a box of the test widget: runAction('rerun-test').
UiRerunTest ==
    /\ currentWidget = "test"
    /\ Len(jobs) < MaxJobs
    /\ uiDone' = Asked("rerun-test", ~currentlyRunningTest)
    /\ IF currentlyRunningTest
       THEN UNCHANGED <<toolbars, topBar, currentlyRunningTest, jobs>>
       ELSE /\ currentlyRunningTest' = TRUE
            /\ Disable("test")
            /\ jobs' = Append(jobs, Job("rerun-test", 1))

\* The widget of an execution.
WidgetOf(a) == IF a \in TestActions THEN "test" ELSE "build"

\* The job of an execution returns: finishFunction / finishedFunction call
\* onFinishFunction, a loop runs its next item and calls onLoopFinished
\* after the last.
UiJobReturn(j) ==
    /\ j \in 1..Len(jobs)
    /\ IF jobs[j].left > 1
       THEN /\ jobs' = [jobs EXCEPT ![j].left = @ - 1]
            /\ UNCHANGED <<toolbars, topBar, currentlyRunningTest>>
       ELSE /\ jobs' = Without(j)
            /\ onFinishRun(WidgetOf(jobs[j].action))
    /\ UNCHANGED uiDone

\* The job of an execution raises.  BuildWidget passes onException, which
\* calls onFinishRun, and a loop halts.  TestWidget passes none: the
\* exception is dropped and onFinishFunction is called as after a return;
\* updateFieldsAfterRun and updateBoxAfterRun return at once for an item
\* with no verdict, updateBoxAfterRun before its call of onFinishRun.
UiJobRaise(j) ==
    /\ j \in 1..Len(jobs)
    /\ CASE jobs[j].action \in {"run-item", "run-all-items"} ->
              /\ jobs' = Without(j)
              /\ onFinishRun("build")
         [] jobs[j].action = "run-all-tests" /\ jobs[j].left > 1 ->
              /\ jobs' = [jobs EXCEPT ![j].left = @ - 1]
              /\ UNCHANGED <<toolbars, topBar, currentlyRunningTest>>
         [] jobs[j].action = "run-all-tests" /\ jobs[j].left <= 1 ->
              /\ jobs' = Without(j)
              /\ onFinishRun("test")
         [] OTHER ->
              /\ jobs' = Without(j)
              /\ UNCHANGED <<toolbars, topBar, currentlyRunningTest>>
    /\ UNCHANGED uiDone

InitBusy ==
    /\ PexIdle /\ ValIdle /\ ItemIdle /\ ColIdle /\ UiIdle
    /\ heap = [r \in Refs |-> Free]
    /\ parentItems = <<>>
    /\ currentTest = <<>>
    /\ undoStack = <<>> /\ redoStack = <<>>
    /\ cmdCalledFromHere = FALSE
    /\ currentWidget \in {"build", "test"}
    /\ file = NoFile
    /\ projectDataFields = TestDataFields("", "", "")
    /\ done = [op |-> "init"]

NextBusy ==
    \/ UiRunItem /\ UNCHANGED <<pexVars, valVars, itemVars, colVars, docVars>>
    \/ UiRunAllItems /\ UNCHANGED <<pexVars, valVars, itemVars, colVars, docVars>>
    \/ UiClearItem /\ UNCHANGED <<pexVars, valVars, itemVars, colVars, docVars>>
    \/ UiEditMenu /\ UNCHANGED <<pexVars, valVars, itemVars, colVars, docVars>>
    \/ UiRunAllTests /\ UNCHANGED <<pexVars, valVars, itemVars, colVars, docVars>>
    \/ UiClearAllTests /\ UNCHANGED <<pexVars, valVars, itemVars, colVars, docVars>>
    \/ UiRerunTest /\ UNCHANGED <<pexVars, valVars, itemVars, colVars, docVars>>
    \/ (\E j \in 1..MaxJobs : UiJobReturn(j)) /\ UNCHANGED <<pexVars, valVars, itemVars, colVars, docVars>>
    \/ (\E j \in 1..MaxJobs : UiJobRaise(j)) /\ UNCHANGED <<pexVars, valVars, itemVars, colVars, docVars>>

SpecBusy == InitBusy /\ [][NextBusy]_vars

(***************************************************************************)
(* Properties of the background executions.                                *)
(***************************************************************************)
\* Has event e of item i been logged?
Logged(e, i) == \E p \in 1..Len(log) : log[p] = Event(e, i)

\* The positions of the log that hold an event of kind e.
Positions(e) == {p \in 1..Len(log) : log[p].ev = e}

\* The place of item i in the queue given to the constructor (0: not in it).
Place(i) == IF \E k \in 1..Len(queue0) : queue0[k] = i
            THEN CHOOSE k \in 1..Len(queue0) : queue0[k] = i
            ELSE 0

\* The threads that were started and have not finished yet.
LiveThreads == {i \in ItemIds : thread[i] \notin {"idle", "finished"}}

\* Nothing is left to do: no live thread, nothing queued in the GUI thread.
Quiescent == started /\ LiveThreads = {} /\ mainQueue = <<>>

\* C1: in a queue run at most one worker thread is alive at any moment, so
\* at most one job is executing: the thread of the next item is started only
\* after the thread of the current item has finished.
C1_OneWorkerAtATime ==
    IsLoop => /\ Cardinality(LiveThreads) <= 1
              /\ Cardinality({i \in ItemIds : thread[i] = "running"}) <= 1

\* C1 witness: the job of a later item runs after the thread of an earlier
\* item has finished.
C1_Witness ==
    /\ IsLoop
    /\ \E i, j \in ItemIds : /\ i # j
                              /\ thread[i] = "finished"
                              /\ thread[j] = "running"

\* C2: in a queue run the threads are started for the items in queue order,
\* from the head, and the thread of item k+1 is started only after
\* onItemDone of item k was invoked (and returned: it is called on the GUI
\* thread before run() is called for the next item).
C2_OrderedHandOff ==
    IsLoop =>
        /\ \A n \in 1..Cardinality(Positions("start")) :
              /\ n <= Len(queue0)
              /\ Logged("start", queue0[n])
              /\ Cardinality({p \in Positions("start") : Place(log[p].item) <= n}) = n
        /\ \A p \in Positions("start") \cup Positions("job") :
              Place(log[p].item) > 1 =>
                  \E q \in 1..(p - 1) :
                      log[q] = Event("itemDone", queue0[Place(log[p].item) - 1])

\* C2 witness: the job of the second item of a queue has been started.
C2_Witness ==
    /\ IsLoop
    /\ Len(queue0) >= 2
    /\ Logged("job", queue0[2])
    /\ queue0[1] > queue0[2]

\* C3: in a queue run, once the job of item k has raised, onItemDone has
\* fired for exactly the items before k, onError fires once (for k), no
\* thread is started for a later item and onQueueDone does not fire.
C3_RaiseAbortsQueue ==
    IsLoop =>
        \A k \in 1..Len(queue0) :
            Logged("raise", queue0[k]) =>
                /\ \A j \in 1..Len(queue0) :
                      Logged("itemDone", queue0[j]) <=> j < k
                /\ \A j \in (k + 1)..Len(queue0) : ~Logged("start", queue0[j])
                /\ Positions("loopDone") = {}
                /\ Cardinality(Positions("error")) <= 1
                /\ Quiescent => Logged("error", queue0[k])

\* C4: in a batch test run, once the test job of an item has raised, that
\* item is not reported through onItemDone and no thread is started for a
\* later item.
C4_TestRunAborts ==
    action = "run-all-tests" =>
        \A k \in 1..Len(queue0) :
            Logged("raise", queue0[k]) =>
                /\ ~Logged("itemDone", queue0[k])
                /\ \A j \in (k + 1)..Len(queue0) : ~Logged("start", queue0[j])

\* The safety half of C5: onQueueDone fires at most once, and when it has
\* fired it is the last event of the run; an empty queue gives onQueueDone
\* and nothing else; onQueueDone and onError never both fire.
C5_EndsOnce ==
    IsLoop =>
        /\ Cardinality(Positions("loopDone")) <= 1
        /\ Positions("loopDone") # {} => log[Len(log)].ev = "loopDone"
        /\ Positions("loopDone") # {} =>
              \A j \in 1..Len(queue0) : Logged("itemDone", queue0[j])
        /\ (started /\ queue0 = <<>>) => log = <<Event("loopDone", None)>>
        /\ ~(Positions("loopDone") # {} /\ Positions("error") # {})

C6_OneFinishOnlyOnReturn ==
    ~IsLoop =>
        /\ Cardinality(Positions("itemDone")) <= 1
        /\ \A i \in ItemIds :
              Logged("itemDone", i) => (thread[i] = "finished" /\ ~Logged("raise", i))

(***************************************************************************)
(* Properties of the validation.                                           *)
(***************************************************************************)
\* The pairs Item.test evaluates: zip stops at the shorter list.
Evaluated ==
    {k \in 1..Len(item.testOutput) : k <= Len(item.result)}

\* The per-iteration verdicts left in the evaluated test results.
IterationVerdicts == {item.testOutput[k].result : k \in Evaluated}

\* test() ran the command and evaluated every pair.
Tested == last.op = "test" /\ last.acted /\ last.raised = "none"

\* The case verdict is the reduction of the per-iteration verdicts.
Reduced ==
    /\ IterationVerdicts = {OK} => item.testResult = OK
    /\ IterationVerdicts = {ERROR} => item.testResult = ERROR
    /\ Cardinality(IterationVerdicts) >= 2 => item.testResult = NOT_ALL_OK

C8_UnknownOperatorUndefined ==
    (/\ Tested
     /\ item.validationCmd.operation = COMPARISON
     /\ item.validationCmd.operator \notin operators) =>
        /\ \A k \in Evaluated : item.testOutput[k].result = ERROR
        /\ item.testResult = UNDEFINED

\* C9: validate never raises: every call returns a verdict.
C9_ValidateNeverRaises ==
    vPc = "done" => (~vOut.raised /\ vOut.ret \in {OK, ERROR, UNDEFINED, NOT_ALL_OK})

\* C10: two results are equal iff their output and return code are, whatever
\* their times and verdicts; under a SameOutput rule the verdict of the pair
\* is OK iff the test result's (output, returnCode) is the baseline's, and
\* Error otherwise.
C10_SameOutput ==
    /\ ResultEq(vOriginal, vTest) <=>
          (vOriginal.output = vTest.output /\ vOriginal.returnCode = vTest.returnCode)
    /\ (vPc = "done" /\ vCmd.operation = SAME) =>
          /\ ~vOut.raised
          /\ vTest.result \in {OK, ERROR}
          /\ vTest.result = OK <=>
                (vOriginal.output = vTest.output /\ vOriginal.returnCode = vTest.returnCode)

\* C10 witness: a pair with the same output and return code, taken at
\* different times and of different duration and verdict, was found OK.
C10_Witness ==
    /\ vPc = "done"
    /\ vCmd.operation = SAME
    /\ vOriginal.output = vTest.output
    /\ vOriginal.returnCode = vTest.returnCode
    /\ vOriginal.executionTime # vTest.executionTime
    /\ vOriginal.timeOfExecution # vTest.timeOfExecution
    /\ vOriginal.result # vTest.result
    /\ vTest.result = OK

\* A call of validate under a Comparison rule with a recognised operator.
Compared == vPc = "done" /\ vCmd.operation = COMPARISON /\ vCmd.operator \in operators

\* C11: under a Comparison rule with a quoted operand the values compared are
\* strings, the operand's literal content (what is between the quotes) and
\* the output as it is, and no number is parsed; so no operator raises, ==
\* gives OK iff the output is the content, and the quoted operand "5" gives
\* OK against output 5 and Error against output 5.0.
C11_QuotedIsLiteral ==
    (Compared /\ Quoted(vCmd.operatorVal)) =>
        /\ Coerce(vCmd.operatorVal, vTest.output).val.t = "str"
        /\ Coerce(vCmd.operatorVal, vTest.output).output = StrV(vTest.output)
        /\ ~vOut.raised
        /\ (Len(vCmd.operatorVal) >= 2 /\ vCmd.operator = "==") =>
              (vTest.result = OK <=>
                 vTest.output = SubSeq(vCmd.operatorVal, 2, Len(vCmd.operatorVal) - 1))
        /\ (vCmd.operatorVal = <<"\"", "5", "\"">> /\ vCmd.operator = "==") =>
              /\ vTest.output = <<"5">> => vTest.result = OK
              /\ vTest.output = <<"5", ".", "0">> => vTest.result = ERROR

\* C11 witness: the quoted operand "5" was compared with == against the
\* output 5.0 and the pair was found in Error.
C11_Witness ==
    /\ Compared
    /\ vCmd.operator = "=="
    /\ vCmd.operatorVal = <<"\"", "5", "\"">>
    /\ vTest.output = <<"5", ".", "0">>
    /\ vTest.result = ERROR

\* C12: under a Comparison rule with an unquoted operand, operand and output
\* reach the operator as values of the same type: two ints when both parse
\* as ints, else two floats when both parse as floats, else two strings, the
\* operand as written and the output without its control characters; so no
\* operator raises.
C12_SameTypeCompared ==
    (Compared /\ ~Quoted(vCmd.operatorVal)) =>
        LET co == Coerce(vCmd.operatorVal, vTest.output)
            ints == IntParses(vCmd.operatorVal) /\ IntParses(vTest.output)
            floats == FloatParses(vCmd.operatorVal) /\ FloatParses(vTest.output)
        IN  /\ co.val.t = co.output.t
            /\ ints => co.val.t = "int"
            /\ (~ints /\ floats) => co.val.t = "float"
            /\ (~ints /\ ~floats) =>
                  /\ co.val = StrV(vCmd.operatorVal)
                  /\ co.output = StrV(StripControl(vTest.output))
            /\ ~vOut.raised

(***************************************************************************)
(* Properties of an Item.                                                  *)
(***************************************************************************)
\* C13: whatever the state of the item, when run() has returned without a
\* failure the item holds exactly repetitions results; run() called again
\* then finds hasBeenRun() and executes nothing.
C13_RunFillsOnce ==
    (last.op = "run" /\ last.raised = "none") =>
        /\ Len(item.result) = item.repetitions
        /\ hasBeenRun(item)

(***************************************************************************)
(* Properties of the editable collection.                                  *)
(***************************************************************************)
\* An edit of the item through the table row or the details form was made.
WasEdited == last.op \in {"edit-table", "edit-details", "edit-enabled"}

\* C14: after any sequence of loads, edits, runs (successful or failed),
\* clears and batch builds, the result list of the item is empty or holds
\* exactly repetitions results.
C14_ResultLength == item.result = <<>> \/ Len(item.result) = item.repetitions

\* C15: in every reachable state the repetitions of the item are >= 0,
\* whether they came from a file, from the table cell or the details field.
C15_RepetitionsNotNegative == item.repetitions >= 0

\* C16: an edit that changed the command or the repetitions of the item left
\* its results empty; an edit that changed neither (name, category, id,
\* enabled) left its results as they were.
C16_EditInvalidates ==
    WasEdited =>
        /\ (item.runcode # last.before.runcode
              \/ item.repetitions # last.before.repetitions) => item.result = <<>>
        /\ (item.runcode = last.before.runcode
              /\ item.repetitions = last.before.repetitions) =>
                 item.result = last.before.result

(***************************************************************************)
(* Properties of the tests of an Item.                                     *)
(***************************************************************************)
\* The item holds its baseline: repetitions results, and at least one.
Built == item.result # <<>> /\ hasBeenRun(item)

\* C17: when test() has run the command of a Built item that held fewer than
\* repetitions test results (it appended repetitions results to them) and
\* returned, the item holds exactly repetitions test results, every pair
\* (result[k], testOutput[k]) carries the verdict validate gives it, and the
\* case verdict is not NotRun.  (test() does nothing on an item without
\* results or with repetitions test results: the guard of ItemTest.)
C17_TestFillsAndJudges ==
    (/\ Tested
     /\ Built
     /\ Len(item.testOutput) - item.repetitions < item.repetitions) =>
        /\ Len(item.testOutput) = item.repetitions
        /\ hasBeenTested(item)
        /\ \A k \in 1..Len(item.result) :
              item.testOutput[k].result =
                  validate(item.validationCmd, item.result[k], item.testOutput[k],
                           NOTRUN).result
        /\ item.testResult # NOTRUN

\* C18: a step of clearTest() leaves the item without test results and with
\* the case verdict NotRun, and every other field of the item (results,
\* repetitions, command, rule, enabled, repeat count, id, name, category) as
\* it was: a Tested item is Built again.
C18_ClearTestFrame ==
    [][last'.op = "clearTest" =>
          /\ item'.testOutput = <<>>
          /\ item'.testResult = NOTRUN
          /\ \A f \in DOMAIN item \ {"testOutput", "testResult"} : item'[f] = item[f]
          /\ DOMAIN item' = DOMAIN item]_vars

\* C18 witness: clearTest() was called on a Built item that held test
\* results, and the item is Built with no test results and verdict NotRun.
C18_Witness ==
    /\ last.op = "clearTest"
    /\ last.acted
    /\ Built
    /\ item.testOutput = <<>>
    /\ item.testResult = NOTRUN

\* The case verdict folded from NotRun over the pairs of the item.
FreshVerdict ==
    testLoop(item.validationCmd, item.result, 1,
             [testResult |-> NOTRUN, testOutput |-> item.testOutput,
              raised |-> FALSE]).testResult

\* C19: a step that changes the repeat count of a session item is a
\* rerun-test, which adds exactly 1 to it and discards the test results and
\* the verdict; when the job of the rerun has returned, the item holds
\* repetitions freshly executed test results and its verdict is the one
\* folded from NotRun over them.
C19_RerunTest ==
    /\ [][(item'.wasTestRepeated # item.wasTestRepeated => last'.op = "rerun-test")
          /\ (last'.op = "rerun-test" =>
                 /\ item'.wasTestRepeated = item.wasTestRepeated + 1
                 /\ item'.testOutput = <<>>
                 /\ item'.testResult = NOTRUN)]_vars
    /\ []((Tested /\ item.wasTestRepeated > 0) =>
             /\ Len(item.testOutput) = item.repetitions
             /\ item.testResult = FreshVerdict
             /\ item.testResult # NOTRUN)

\* C19 witness: the test of an item of two repetitions or more was rerun
\* twice, and the second rerun has returned with the verdict Error.
C19_Witness ==
    /\ Tested
    /\ item.wasTestRepeated = 2
    /\ item.repetitions >= 2
    /\ item.testResult = ERROR

\* C20: the batch build and the batch test queue no disabled item and no item
\* with zero repetitions: every item of the queue handed to the execution,
\* and so every item a job is started for, is enabled with repetitions > 0.
C20_BatchSkips ==
    /\ \A k \in 1..Len(queue0) : isEnabled(items[queue0[k]])
    /\ \A i \in ItemIds : Logged("job", i) => isEnabled(items[i])

\* C21: the single-item run and clear act on a disabled item as on an enabled
\* one: a single run is refused only for an item that already holds its
\* results, and a single clear leaves the item without results.
C21_IndividuallyRunnable ==
    /\ last.op = "run-item" => hasBeenRun(item)
    /\ last.op = "clear-item" => item.result = <<>>

(***************************************************************************)
(* Properties of the undo/redo log.                                        *)
(***************************************************************************)
\* The last handler was a fresh add, remove or duplicate of the user.
Fresh == done.op \in {"item-add", "item-remove", "item-duplicate"}

\* ... and it changed the collection.
FreshEdit == Fresh /\ (parentItems # done.before.items \/ heap # done.before.heap)

\* The list is `before` without its element at some place, which is x or an
\* item with the fields of x.
Removed(before, x, list) ==
    \E k \in 1..Len(before) :
        /\ before[k] = x \/ heap[before[k]] = heap[x]
        /\ list = listRemove(before, k)

\* The entries that undo the change of the collection from `before` to list
\* made by the action: the re-add of the removed item, the removal of the
\* added one.
Inverses(action_, before, list) ==
    IF action_ = "item-remove"
    THEN {Entry("item-add", x) : x \in {x \in Refs : Removed(before, x, list)}}
    ELSE {Entry("item-remove", x) : x \in {x \in Refs : list = Append(before, x)}}

\* C23: a fresh add, remove or duplicate that changed the collection has
\* pushed exactly one entry, its inverse, onto the undo stack and has left
\* the redo stack empty.
C23_FreshEditPushesInverse ==
    FreshEdit =>
        /\ \E e \in Inverses(IF done.op = "item-remove" THEN "item-remove" ELSE "item-add",
                             done.before.items, parentItems) :
              undoStack = Append(done.before.undoStack, e)
        /\ redoStack = <<>>

\* The replay of entry e has been carried out on the collection, from
\* `before` to list, and i is its inverse.
Replayed(e, before, list, i) ==
    /\ i \in Inverses(e.action, before, list)
    /\ e.item # None => i.item = e.item

\* C24: undo with a non-empty undo stack has removed the top entry of undo,
\* carried it out on the collection and pushed its inverse onto redo, above
\* the entries redo held; redo likewise with the stacks swapped.
C24_UndoRedoReplay ==
    /\ (done.op = "undo" /\ done.before.undoStack # <<>>) =>
          /\ undoStack = Pop(done.before.undoStack)
          /\ redoStack # <<>>
          /\ Pop(redoStack) = done.before.redoStack
          /\ Replayed(Top(done.before.undoStack), done.before.items, parentItems,
                      Top(redoStack))
    /\ (done.op = "redo" /\ done.before.redoStack # <<>>) =>
          /\ redoStack = Pop(done.before.redoStack)
          /\ undoStack # <<>>
          /\ Pop(undoStack) = done.before.undoStack
          /\ Replayed(Top(done.before.redoStack), done.before.items, parentItems,
                      Top(undoStack))

\* The two lists hold items of the same fields, as many of each, in whatever
\* order (the build tab sorts the collection by id).
SameItems(heap1, list1, heap2, list2) ==
    \A v \in {heap1[r] : r \in Refs} \cup {heap2[r] : r \in Refs} :
        Cardinality({k \in 1..Len(list1) : heap1[list1[k]] = v})
           = Cardinality({k \in 1..Len(list2) : heap2[list2[k]] = v})

\* C25: an undo that finds the inverse of an add on the undo stack removes
\* that item and nothing else and pushes its re-add onto redo; the redo that
\* follows it leaves the items of the collection, their fields and the undo
\* stack as they were before the undo.
C25_UndoOfAdd ==
    /\ (done.op = "undo" /\ done.before.undoStack # <<>>
          /\ Top(done.before.undoStack).action = "item-remove") =>
          /\ Removed(done.before.items, Top(done.before.undoStack).item, parentItems)
          /\ heap = done.before.heap
          /\ redoStack = Append(done.before.redoStack,
                                Entry("item-add", Top(done.before.undoStack).item))
    /\ (done.op = "redo" /\ done.prevOp = "undo" /\ done.prior.undoStack # <<>>
          /\ Top(done.prior.undoStack).action = "item-remove") =>
          /\ SameItems(heap, parentItems, done.prior.heap, done.prior.items)
          /\ undoStack = done.prior.undoStack

\* C26: undo with an empty undo stack, and redo with an empty redo stack,
\* raise nothing and leave the collection, both stacks and the mark alone.
C26_EmptyStackNoOp ==
    ((done.op = "undo" /\ done.before.undoStack = <<>>)
        \/ (done.op = "redo" /\ done.before.redoStack = <<>>)) =>
        /\ done.raised = "none"
        /\ heap = done.before.heap
        /\ parentItems = done.before.items
        /\ undoStack = done.before.undoStack
        /\ redoStack = done.before.redoStack
        /\ cmdCalledFromHere = done.before.cmdCalledFromHere

\* C26 witness: undo found its stack empty while the collection held an item
\* and redo held an entry.
C26_Witness ==
    /\ done.op = "undo"
    /\ done.before.undoStack = <<>>
    /\ parentItems # <<>>
    /\ redoStack # <<>>

\* C27: an add, a remove, a duplicate, a run or a clear that changed the data
\* of the collection has recorded one entry in the log, and the undo right
\* after it restores the collection.
C27_EditsAreLogged ==
    /\ (done.op \in {"item-add", "item-remove", "item-duplicate", "run-item", "clear-item"}
          /\ (parentItems # done.before.items \/ heap # done.before.heap)) =>
          Len(undoStack) = Len(done.before.undoStack) + 1
    /\ (done.op = "undo"
          /\ done.prevOp \in {"item-add", "item-remove", "item-duplicate", "run-item",
                              "clear-item"}
          /\ (done.before.items # done.prior.items \/ done.before.heap # done.prior.heap)) =>
          /\ parentItems = done.prior.items
          /\ \A k \in 1..Len(parentItems) :
                heap[parentItems[k]] = done.prior.heap[parentItems[k]]

\* C28: no two items of the collection have the same id, and the item a
\* fresh add or duplicate made has an id no item had.
C28_UniqueIds ==
    /\ \A j, k \in 1..Len(parentItems) :
          j # k => heap[parentItems[j]].id # heap[parentItems[k]].id
    /\ (FreshEdit /\ done.op \in {"item-add", "item-duplicate"}) =>
          \A k \in 1..Len(done.before.items) :
             heap[parentItems[Len(parentItems)]].id # heap[done.before.items[k]].id

(***************************************************************************)
(* Properties of the test session.                                         *)
(***************************************************************************)
SessionOps == {"run-all-tests", "test", "rerun-test", "clear-all-tests"}

CollectionOps == {"item-add", "edit-name"}

\* C22: the session is a deep copy: no operation on the session (start of
\* a test, test of an item, rerun, clear) changes the collection or a field
\* of an Item of the collection or of the log, no edit of the collection
\* changes an Item of the session, and the session holds no Item of the
\* collection.
C22_SessionIsDeepCopy ==
    /\ done.op \in SessionOps =>
          /\ parentItems = done.before.items
          /\ \A r \in Refs : heap[r] = done.before.heap[r]
    /\ done.op \in CollectionOps =>
          \A k \in 1..Len(currentTest) :
             heap[currentTest[k]] = done.before.heap[currentTest[k]]
    /\ \A k \in 1..Len(currentTest) : currentTest[k] \notin Refs

\* An item of the session was tested and the item of the collection it was
\* copied from has been renamed since.
C22_Witness ==
    /\ done.op = "edit-name"
    /\ \E k \in 1..Len(currentTest) : \E j \in 1..Len(parentItems) :
          /\ currentTest[k] = parentItems[j] + MaxObjs
          /\ heap[currentTest[k]].testResult # NOTRUN
          /\ heap[currentTest[k]].name = "Undeclared"
          /\ heap[parentItems[j]].name = "other"
          /\ heap[parentItems[j]].testResult = NOTRUN

(***************************************************************************)
(* Properties of the project file.                                         *)
(***************************************************************************)
\* The collection and the metadata are what the file was written from, but
\* for the volatile fields: the times and the verdict of an execution, the
\* date and the count of tests of the metadata.
SameButVolatile ==
    /\ projectDataFields.name = file.written.fields.name
    /\ projectDataFields.project = file.written.fields.project
    /\ projectDataFields.author = file.written.fields.author
    /\ projectDataFields.conductor = file.written.fields.conductor
    /\ Len(Memory) = Len(file.written.items)
    /\ \A k \in 1..Len(Memory) :
          LET now == Memory[k]
              then == file.written.items[k]
          IN  /\ now.id = then.id
              /\ now.name = then.name
              /\ now.wasTestRepeated = then.wasTestRepeated
              /\ now.testResult = then.testResult
              /\ now.testOutput = then.testOutput
              /\ Len(now.result) = Len(then.result)
              /\ \A j \in 1..Len(now.result) :
                    /\ now.result[j].output = then.result[j].output
                    /\ now.result[j].returnCode = then.result[j].returnCode

C30_ChangesAreDetected ==
    done.op = "isSaved" /\ ~SameButVolatile =>
        done.raised = "none" /\ done.ret = "False"

(***************************************************************************)
(* Properties of the replay mark and of the entries of the log.            *)
(***************************************************************************)
\* C36: the replay mark is set only while undo() or redo() executes an
\* action: between two handlers it is false, also after a replayed action
\* raised.
C36_MarkOnlyDuringReplay == cmdCalledFromHere = FALSE

\* C39: a removal that found nothing selected (it removed nothing and raised
\* nothing) leaves the collection, the undo stack and the redo stack as they
\* were.
C39_RemoveNothingIsNoOp ==
    /\ done.op = "item-remove"
    /\ done.raised = "none"
    /\ parentItems = done.before.items
    => /\ heap = done.before.heap
       /\ undoStack = done.before.undoStack
       /\ redoStack = done.before.redoStack

\* C40: undo() and redo() never discard an entry: in whatever tab, the
\* entries of the undo stack and of the redo stack together are as many
\* after the call as before it.
C40_NoEntryDiscarded ==
    done.op \in {"undo", "redo"} =>
        Len(undoStack) + Len(redoStack)
            = Len(done.before.undoStack) + Len(done.before.redoStack)

(***************************************************************************)
(* Properties of the execution of a command.                               *)
(***************************************************************************)
\* The repetitions of the call whose process wrote to its error stream.
Failing == {k \in 1..item.repetitions : last.procs[k].stderr # <<>>}

\* The results hold the first n repetitions, each with what it printed and
\* its exit code.
Recorded(n) ==
    /\ Len(item.result) = n
    /\ \A k \in 1..n :
          /\ item.result[k].output = last.procs[k].stdout
          /\ item.result[k].returnCode = last.procs[k].returncode

\* C34: the execution of a command for r repetitions raises at the first
\* repetition whose process writes to its error stream: the repetitions
\* before it are recorded, that one is not, none is started after it and
\* none is started twice; a repetition that ends with an exit code other
\* than 0 and an empty error stream is recorded with its exit code, and
\* without a failing repetition all r are recorded and nothing is raised.
C34_FailsAtFirstErrorOutput ==
    last.op = "run" =>
        IF Failing = {}
        THEN /\ last.raised = "none"
             /\ Recorded(item.repetitions)
             /\ last.spawned = item.repetitions
        ELSE \E f \in Failing :
                /\ \A k \in Failing : f <= k
                /\ last.raised = "CalledProcessError"
                /\ Recorded(f - 1)
                /\ last.spawned = f

\* A call that recorded a repetition with exit code 1, raised at the next
\* one and left a repetition that never started.
C34_Witness ==
    /\ last.op = "run"
    /\ last.raised = "CalledProcessError"
    /\ \E k \in 1..Len(item.result) : item.result[k].returnCode = 1
    /\ last.spawned < item.repetitions

(***************************************************************************)
(* Properties of the verdict of an Item.                                   *)
(***************************************************************************)
\* The verdicts of the iterations, as the test results of the item hold
\* them.
StoredVerdicts == {item.testOutput[k].result : k \in 1..Len(item.testOutput)}

\* C37: after test() has executed the command of an item, the verdict of
\* the item agrees with the verdicts stored in its test results: it is
\* NOT_ALL_OK only if two iterations have different verdicts, OK only if
\* every iteration is OK, ERROR only if every iteration is ERROR.
C37_VerdictAgrees ==
    (last.op = "test" /\ last.acted) =>
        /\ item.testResult = NOT_ALL_OK => Cardinality(StoredVerdicts) >= 2
        /\ item.testResult = OK => StoredVerdicts = {OK}
        /\ item.testResult = ERROR => StoredVerdicts = {ERROR}

(***************************************************************************)
(* Properties of the file on disk.                                         *)
(***************************************************************************)
\* C31: areItemsSaved returns False, and raises nothing, on a file that
\* cannot be read: one that is missing, holds no JSON or holds JSON that is
\* not an envelope.
C31_UnreadableIsUnsaved ==
    done.op = "isSaved" /\ readError(file) # "none" =>
        done.raised = "none" /\ done.ret = "False"

\* The value a key of the item of the file gives, its default when the
\* file does not hold the key.
Given(k) == IF k \in DOMAIN file.items[1] THEN file.items[1][k] ELSE ItemDefaults[k]

\* C32: the item loaded from a file has the fields of Item and no other:
\* a key Item does not know is dropped, a key the file does not hold has
\* its default; its repetitions are those of the file, 0 when they are
\* below 0; its results and its test results are the first of the file's,
\* at most repetitions of them; every other field is as the file gives it.
C32_LoadNormalises ==
    (last.op = "load" /\ last.raised = "none" /\ done.op = "load") =>
        /\ DOMAIN item = itemFields
        /\ item.repetitions = IF Given("repetitions") < 0 THEN 0 ELSE Given("repetitions")
        /\ \A k \in {"result", "testOutput"} :
              /\ Len(item[k]) <= item.repetitions
              /\ Len(item[k]) <= Len(Given(k))
              /\ Len(item[k]) = item.repetitions \/ Len(item[k]) = Len(Given(k))
              /\ \A j \in 1..Len(item[k]) : item[k][j] = Given(k)[j]
        /\ \A k \in itemFields \ {"repetitions", "result", "testOutput"} : item[k] = Given(k)

\* An item was loaded from a file that holds an unknown key, no name,
\* repetitions below 0 and results.
C32_Witness ==
    /\ last.op = "load" /\ last.raised = "none" /\ done.op = "load"
    /\ "colour" \in DOMAIN file.items[1]
    /\ "name" \notin DOMAIN file.items[1]
    /\ "repetitions" \in DOMAIN file.items[1]
    /\ "result" \in DOMAIN file.items[1]
    /\ file.items[1].repetitions < 0
    /\ file.items[1].result # <<>>
    /\ item.result = <<>>

\* C33: a save that failed leaves the file as it was.
C33_SaveAllOrNothing ==
    done.op = "save" /\ done.raised # "none" => file = done.before

(***************************************************************************)
(* Properties of the widgets while executions are in flight.               *)
(***************************************************************************)
\* The actions that change the collection or start an execution.
BlockedOps == MenuOps \cup {"clear-item", "run-item", "run-all-items", "run-all-tests", "rerun-test"}

\* C35: no add, remove, duplicate, undo, redo, clear or start of a run
\* acts while an execution is in flight, and when no execution is in
\* flight the tool bars and the topBars are enabled again.
C35_NoEditWhileRunning ==
    /\ (uiDone.op \in BlockedOps /\ uiDone.acted) => ~uiDone.busy
    /\ jobs = <<>> => (toolbars /\ topBar.build /\ topBar.test)

\* C38: currentlyRunningTest is true only while an execution of the test
\* widget is in flight, and with no execution in flight the tool bars are
\* enabled.
C38_BusyOnlyWhileTesting ==
    /\ currentlyRunningTest => \E j \in 1..Len(jobs) : jobs[j].action \in TestActions
    /\ jobs = <<>> => toolbars
====
